---- MODULE Spec2Model ----
(***************************************************************************)
(* Community menu store of the virtual-nutritionist backend.               *)
(*                                                                         *)
(* One restaurant (one Google place_id) is modelled.  The database holds   *)
(* the committed Restaurant row and the committed RestaurantMenuItem rows. *)
(* Every request handler runs in its own SQLAlchemy session; the handlers  *)
(* take no lock of their own, so requests served by different workers      *)
(* interleave at the granularity of SQL statements and commits (PostgreSQL *)
(* READ COMMITTED: a statement sees what is committed when it runs, the    *)
(* changes of a transaction become visible together at its commit).        *)
(*                                                                         *)
(* Time is a clock in ticks, TicksPerDay ticks a day; timedelta.days is    *)
(* the floor of the elapsed ticks over TicksPerDay.                        *)
(***************************************************************************)
EXTENDS Integers, Sequences, FiniteSets, TLC

\* ---------------------------------------------------------------- bounds
MaxRequests == 2        \* analyze requests per behaviour
MaxClock == 1           \* last tick of the clock under Spec
TicksPerDay == 2        \* resolution of the clock
MaxAgeDays == 31        \* oldest record drawn by InitAged
MaxCatalog == 4         \* most photos the places provider lists
MaxItems == 3           \* longest list given to deduplicate_menu_items
MaxProtocols == 3       \* longest list given to load_protocol_triggers
MaxPageSize == 2        \* most results on one page of the places provider
MaxAuthRequests == 4    \* login, refresh and logout requests per behaviour
MaxAuthTicks == 2       \* times the clock of the token table moves
MaxOwnedRows == 2       \* scans, and bookmarks, saved per behaviour
MaxOwnedRequests == 4   \* requests on scans and bookmarks per behaviour
MaxIdRequests == 2      \* requests naming a protocol id per behaviour

Writers == {1, 2}            \* sessions serving analyze requests
Solo == {1}                  \* the one contributor of SpecAged
Passes == 0..MaxRequests     \* pass 0: the contribution Init may start from

\* ------------------------------------------------------- program constants
FreshDays == 7          \* days_since_scan < 7  -> fresh
RecentDays == 30        \* days_since_scan < 30 -> recent

valid_protocols ==
  { "low_fodmap", "scd", "low_residue", "gluten_free", "dairy_free",
    "nut_free", "peanut_free", "soy_free", "egg_free", "shellfish_free",
    "fish_free", "pork_free", "red_meat_free", "vegan", "vegetarian",
    "paleo", "keto", "low_histamine" }

PlacesPhotoCap == 10    \* photos kept by get_place_details
DefaultMaxPhotos == 10      \* max_photos when the caller gives none
DefaultMinConfidence == 70  \* min_confidence 0.7, in hundredths
AcceptLimit == 3        \* accepted photos that end the screening loop
MaxPages == 3           \* max_pages of nearby_search
MaxResults == 60        \* max_results of nearby_search
RefreshTokenExpireDays == 30   \* REFRESH_TOKEN_EXPIRE_DAYS
SecondsPerDay == 86400
RefreshTokenLife == RefreshTokenExpireDays * SecondsPerDay

\* ------------------------------------------------------------ input data
Null == -1              \* SQL NULL / Python None for a timestamp
NoName == <<"<no name>">>   \* an item dict without the "name" key
NoKey == "<missing key>"    \* a verdict dict without the "reason" key

\* a name is the sequence of its characters
ItemA == [name |-> <<"S", "o", "u", "p">>, safety |-> "safe",
          triggers |-> <<>>, notes |-> "no triggers"]
ItemB == [name |-> <<"B", "r", "e", "a", "d">>, safety |-> "avoid",
          triggers |-> <<"wheat">>, notes |-> "contains wheat"]
ItemNoName == [name |-> NoName, safety |-> "caution", triggers |-> <<>>,
               notes |-> ""]

\* what the vision call may hand back as menu_items
VisionOutputs == { <<>>, <<ItemA, ItemB>>, <<ItemA, ItemNoName>> }

\* the requests a client may send: protocols, image, and whether the places
\* provider resolves the place_id
AnalyzeRequests ==
  { [protocols |-> <<"vegan">>, image |-> "img", resolves |-> TRUE],
    [protocols |-> <<"vegan", "atkins">>, image |-> "img", resolves |-> TRUE],
    [protocols |-> <<"vegan">>, image |-> "img", resolves |-> FALSE],
    [protocols |-> <<"vegan">>, image |-> "", resolves |-> TRUE],
    [protocols |-> <<"atkins">>, image |-> "", resolves |-> FALSE] }

\* an item whose name differs from ItemA's by case and surrounding blanks
ItemADup == [name |-> <<" ", "s", "o", "u", "p">>, safety |-> "caution",
             triggers |-> <<>>, notes |-> "ask the server"]

\* ------------------------------------------------------------- conversions
\* str(n) and int(s) on decimal digit strings, a string being the sequence
\* of its digits
RECURSIVE IntToStr(_)
IntToStr(n) == IF n < 10 THEN <<n>> ELSE IntToStr(n \div 10) \o <<n % 10>>

RECURSIVE StrToInt(_)
StrToInt(s) ==
  IF Len(s) = 0 THEN 0
  ELSE 10 * StrToInt(SubSeq(s, 1, Len(s) - 1)) + s[Len(s)]

\* str.lower() and str.strip() on a string given as its characters
LowerChar(c) ==
  CASE c = "S" -> "s"
    [] c = "B" -> "b"
    [] c = "E" -> "e"
    [] c = "G" -> "g"
    [] c = "C" -> "c"
    [] OTHER -> c

Lower(str) == [i \in 1..Len(str) |-> LowerChar(str[i])]

RECURSIVE StripChars(_)
StripChars(str) ==
  IF Len(str) = 0 THEN str
  ELSE IF str[1] = " " THEN StripChars(Tail(str))
  ELSE IF str[Len(str)] = " " THEN StripChars(SubSeq(str, 1, Len(str) - 1))
  ELSE str

\* the deduplication key of an item name
Key(name) == StripChars(Lower(name))

\* int(x or d): a NULL or empty string falls back to the default d
IntOr(s, d) == IF s = <<>> THEN d ELSE StrToInt(s)

\* ------------------------------------------------------- model responses
\* A JSON document: its kind, the keys an object carries and their values
\* (confidence in hundredths).
NoJson == [kind |-> "none", keys |-> {}, is_menu |-> FALSE, confidence |-> 0,
           reason |-> NoKey, menu_items |-> <<>>]

MenuJson(items) ==
  [NoJson EXCEPT !.kind = "object", !.keys = {"menu_items"},
                 !.menu_items = items]
EmptyWithErrorJson ==
  [NoJson EXCEPT !.kind = "object", !.keys = {"menu_items", "error"}]
ErrorOnlyJson == [NoJson EXCEPT !.kind = "object", !.keys = {"error"}]
ArrayJson == [NoJson EXCEPT !.kind = "array"]

VerdictJson(m, c, r) ==
  [NoJson EXCEPT !.kind = "object",
                 !.keys = {"is_menu", "confidence"} \cup
                          (IF r = NoKey THEN {} ELSE {"reason"}),
                 !.is_menu = m, !.confidence = c, !.reason = r]

\* A response text is the sequence of its lines: a code fence, a code fence
\* behind leading blanks, a blank line, a line holding one JSON document, or
\* prose.
FenceLine == [type |-> "fence", json |-> NoJson]
IndentedFenceLine == [type |-> "indented_fence", json |-> NoJson]
BlankLine == [type |-> "blank", json |-> NoJson]
ProseLine == [type |-> "prose", json |-> NoJson]
JsonLine(j) == [type |-> "json", json |-> j]

\* the outcome of client.messages.create: an exception or a text
ApiError == [raised |-> TRUE, text |-> <<>>]
ApiText(lines) == [raised |-> FALSE, text |-> lines]

\* text.startswith("```")
StartsWithFence(text) == Len(text) > 0 /\ text[1].type = "fence"

\* "\n".join(l for l in text.split("\n") if not l.startswith("```"))
DropFences(text) == SelectSeq(text, LAMBDA l : l.type # "fence")

\* text.strip(): blank lines at both ends go, and so do the blanks in front of
\* the first line
RECURSIVE StripText(_)
StripText(text) ==
  IF Len(text) = 0 THEN text
  ELSE IF text[1].type = "blank" THEN StripText(Tail(text))
  ELSE IF text[Len(text)].type = "blank"
    THEN StripText(SubSeq(text, 1, Len(text) - 1))
  ELSE IF text[1].type = "indented_fence"
    THEN <<FenceLine>> \o Tail(text)
  ELSE text

\* json.loads(text): one document, white space around it allowed
json_loads(text) ==
  LET body == SelectSeq(text, LAMBDA l : l.type # "blank")
  IN IF Len(body) = 1 /\ body[1].type = "json"
       THEN [ok |-> TRUE, value |-> body[1].json]
       ELSE [ok |-> FALSE, value |-> NoJson]

\* ----------------------------------------------------- analyze_menu_image
\* the item returned when the response is not JSON
ErrorItem ==
  [name |-> <<"E", "r", "r", "o", "r", " ", "p", "a", "r", "s", "i", "n",
              "g", " ", "m", "e", "n", "u">>,
   safety |-> "caution", triggers |-> <<>>,
   notes |-> "Could not parse menu analysis. Please try again with a clearer image. Error: JSONDecodeError"]

\* result.get("menu_items", []) on a value that is not a dict: AttributeError
GetOnNonObject(value) == [raised |-> TRUE, items |-> <<>>]

\* the API call outside any try, the fence filter, json.loads under
\* "except json.JSONDecodeError", then result.get("menu_items", [])
analyze_menu_image(api) ==
  IF api.raised THEN [raised |-> TRUE, items |-> <<>>]
  ELSE LET text == IF StartsWithFence(api.text) THEN DropFences(api.text)
                   ELSE api.text
           parsed == json_loads(text)
       IN IF ~parsed.ok THEN [raised |-> FALSE, items |-> <<ErrorItem>>]
          ELSE IF parsed.value.kind # "object"
            THEN GetOnNonObject(parsed.value)
          ELSE [raised |-> FALSE,
                items |-> IF "menu_items" \in parsed.value.keys
                            THEN parsed.value.menu_items ELSE <<>>]

\* what the vision model may answer to the menu prompt
MenuApiResults ==
  { ApiError,
    ApiText(<<JsonLine(MenuJson(<<ItemA, ItemB>>))>>),
    ApiText(<<FenceLine, JsonLine(MenuJson(<<ItemA, ItemB>>)), FenceLine>>),
    ApiText(<<JsonLine(EmptyWithErrorJson)>>),
    ApiText(<<JsonLine(ErrorOnlyJson)>>),
    ApiText(<<ProseLine>>),
    ApiText(<<IndentedFenceLine, JsonLine(MenuJson(<<ItemA>>)), FenceLine>>),
    ApiText(<<JsonLine(ArrayJson)>>),
    ApiText(<<JsonLine(MenuJson(<<ItemA, ItemNoName>>))>>),
    ApiText(<<JsonLine(MenuJson(<<ItemA, ItemADup>>))>>) }

\* (a - b).days
DaysBetween(a, b) == (a - b) \div TicksPerDay

\* ------------------------------------------------------------------ state
VARIABLES
  now,               \* the clock (dt.utcnow()), in ticks
  restaurant,        \* committed Restaurant row of the place_id
  menu_item_rows,    \* committed RestaurantMenuItem rows, index = row id
  pc,                \* per analyze session: position in the handler
  menu_items,        \* per analyze session: result of analyze_menu_image
  existing,          \* per analyze session: row read by the first query
  pending,           \* per analyze session: attribute values to flush
  locked,            \* per analyze session: rows updated, not yet committed
  rpc,               \* reader: position in get_restaurant_menu
  rrestaurant,       \* reader: row read by its first query
  response,          \* reader: last response of get_restaurant_menu
  pass,              \* history: pass number of a session's request
  hist,              \* history: per pass, what the request did
  reqs,              \* history: analyze requests started
  last_done,         \* history: pass whose second commit came last
  screening,         \* arguments and catalog of one screening call
  run,               \* the screening call, once per value of return_debug_info
  call               \* the function call under study: arguments and outcome

vars == << now, restaurant, menu_item_rows, pc, menu_items, existing,
           pending, locked, rpc, rrestaurant, response, pass, hist, reqs,
           last_done, screening, run, call >>

writerVars == << pc, menu_items, existing, pending, locked, pass >>
readerVars == << rpc, rrestaurant, response >>
dbVars == << restaurant, menu_item_rows >>
storeVars == << now, restaurant, menu_item_rows, pc, menu_items, existing,
                pending, locked, rpc, rrestaurant, response, pass, hist,
                reqs, last_done >>
screenVars == << screening, run >>

AbsentRow == [present |-> FALSE, menu_last_scanned |-> Null,
              total_scans |-> <<>>, pass |-> 0]

NoResponse == [status |-> 0, rows |-> {}, menu_items |-> <<>>,
               last_analyzed |-> Null, days_since_scan |-> 0,
               freshness |-> "", total_scans |-> 0, item_count |-> 0,
               seen |-> FALSE, pass |-> 0]

NoCall == [fn |-> "none"]

NoAnswer == [raised |-> FALSE, text |-> <<>>]

NoHist == [items |-> <<>>, ts |-> Null, c1 |-> FALSE, c2 |-> FALSE,
           fresh |-> FALSE, overlap |-> FALSE, vision |-> 0,
           answer |-> NoAnswer]

\* the passes whose first commit (the Restaurant row) has been made
Committed == { p \in Passes : hist[p].c1 }

InFlight(w) == pc[w] \in {"vision", "query", "update", "commit1", "commit2"}

\* ---------------------------------------------------- get_restaurant_menu
NotFoundMissingCheck(r) == r.present /\ r.menu_last_scanned = Null

NotFound(r) == ~r.present \/ r.menu_last_scanned = Null

FreshnessInclusive(days_since_scan) ==
  IF days_since_scan <= FreshDays THEN "fresh"
  ELSE IF days_since_scan <= RecentDays THEN "recent"
  ELSE "stale"

Freshness(days_since_scan) ==
  IF days_since_scan < FreshDays THEN "fresh"
  ELSE IF days_since_scan < RecentDays THEN "recent"
  ELSE "stale"

ActiveIds(rows) == { i \in 1..Len(rows) : rows[i].is_active }

ResponseItem(row) == [name |-> row.name, description |-> row.description,
                      price |-> row.price, category |-> row.category]

\* first query; 404 when there is no row or it was never scanned
ReadRestaurant ==
  /\ rpc = "idle"
  /\ IF NotFound(restaurant)
       THEN /\ response' = [NoResponse EXCEPT !.status = 404,
                                               !.seen = (Committed # {})]
            /\ rrestaurant' = AbsentRow
            /\ rpc' = "idle"
       ELSE /\ response' = [NoResponse EXCEPT !.seen = (Committed # {})]
            /\ rrestaurant' = restaurant
            /\ rpc' = "items"
  /\ UNCHANGED << now, dbVars, writerVars, hist, reqs, last_done >>
  /\ UNCHANGED << screenVars, call >>

\* (the variant that counts a view on the record it serves)
ReadItemsCountingViews ==
  /\ rpc = "items"
  /\ LET ids == ActiveIds(menu_item_rows)
         days == DaysBetween(now, rrestaurant.menu_last_scanned)
     IN response' =
          [status |-> 200,
           rows |-> ids,
           menu_items |-> [i \in ids |-> ResponseItem(menu_item_rows[i])],
           last_analyzed |-> rrestaurant.menu_last_scanned,
           days_since_scan |-> days,
           freshness |-> Freshness(days),
           total_scans |-> IntOr(rrestaurant.total_scans, 1),
           item_count |-> Cardinality(ids),
           seen |-> response.seen,
           pass |-> rrestaurant.pass]
  /\ restaurant' =
       [restaurant EXCEPT
          !.total_scans = IntToStr(IntOr(restaurant.total_scans, 0) + 1)]
  /\ rrestaurant' = AbsentRow
  /\ rpc' = "idle"
  /\ UNCHANGED << now, menu_item_rows, writerVars, hist, reqs, last_done >>
  /\ UNCHANGED << screenVars, call >>

\* second query (active items), freshness, response
ReadItems ==
  /\ rpc = "items"
  /\ LET ids == ActiveIds(menu_item_rows)
         days == DaysBetween(now, rrestaurant.menu_last_scanned)
     IN response' =
          [status |-> 200,
           rows |-> ids,
           menu_items |-> [i \in ids |-> ResponseItem(menu_item_rows[i])],
           last_analyzed |-> rrestaurant.menu_last_scanned,
           days_since_scan |-> days,
           freshness |-> Freshness(days),
           total_scans |-> IntOr(rrestaurant.total_scans, 1),
           item_count |-> Cardinality(ids),
           seen |-> response.seen,
           pass |-> rrestaurant.pass]
  /\ rrestaurant' = AbsentRow
  /\ rpc' = "idle"
  /\ UNCHANGED << now, dbVars, writerVars, hist, reqs, last_done >>
  /\ UNCHANGED << screenVars, call >>

\* ------------------------------------------------ analyze_restaurant_menu
\* The checks in front of the vision call, in the order of the handler, with
\* the calls made on the way; status 0: no HTTPException.
\* (the variant that looks the place up before it validates the protocols)
RequestChecksLookupFirst(req) ==
  IF ~req.resolves
    THEN [status |-> 404, calls |-> <<"get_place_details">>]
  ELSE IF \E i \in 1..Len(req.protocols) :
            req.protocols[i] \notin valid_protocols
    THEN [status |-> 400, calls |-> <<"get_place_details">>]
  ELSE IF req.image = ""
    THEN [status |-> 400, calls |-> <<"get_place_details">>]
  ELSE [status |-> 0,
        calls |-> <<"get_place_details", "load_protocol_triggers">>]

RequestChecks(req) ==
  IF \E i \in 1..Len(req.protocols) :
       req.protocols[i] \notin valid_protocols
    THEN [status |-> 400, calls |-> <<>>]
  ELSE IF ~req.resolves
    THEN [status |-> 404, calls |-> <<"get_place_details">>]
  ELSE IF req.image = ""
    THEN [status |-> 400, calls |-> <<"get_place_details">>]
  ELSE [status |-> 0,
        calls |-> <<"get_place_details", "load_protocol_triggers">>]

\* validation, places lookup, image check (the request is rejected) or the
\* request goes on to the vision call
\* (cached: whether a fresh record answers the request without analysis;
\* the handler has no such branch)
StartRequest(w, cached, traced) ==
  /\ pc[w] \in {"idle", "done", "failed", "rejected"}
  /\ \A v \in Writers : v < w => InFlight(v)
  /\ reqs < MaxRequests
  /\ \E req \in AnalyzeRequests :
       LET p == reqs + 1
           checks == RequestChecks(req)
           ok == checks.status = 0
           others == { v \in Writers \ {w} : InFlight(v) }
       IN /\ reqs' = p
          /\ pass' = [pass EXCEPT ![w] = p]
          /\ pc' = [pc EXCEPT ![w] =
                IF ~ok THEN "rejected"
                ELSE IF cached /\ ~NotFound(restaurant)
                        /\ Freshness(DaysBetween(now,
                              restaurant.menu_last_scanned)) = "fresh"
                  THEN "done"
                ELSE "vision"]
          /\ hist' = [q \in Passes |->
                IF q = p
                  THEN [NoHist EXCEPT
                          !.fresh = /\ ~NotFound(restaurant)
                                    /\ Freshness(DaysBetween(now,
                                         restaurant.menu_last_scanned))
                                       = "fresh",
                          !.overlap = ok /\ others # {}]
                ELSE IF ok /\ \E v \in others : pass[v] = q
                  THEN [hist[q] EXCEPT !.overlap = TRUE]
                ELSE hist[q]]
          /\ call' = IF traced
                        THEN [fn |-> "analyze_restaurant_menu",
                              request |-> req, status |-> checks.status,
                              calls |-> checks.calls,
                              restaurant |-> restaurant,
                              menu_item_rows |-> menu_item_rows]
                        ELSE call
  /\ menu_items' = [menu_items EXCEPT ![w] = <<>>]
  /\ existing' = [existing EXCEPT ![w] = AbsentRow]
  /\ pending' = [pending EXCEPT ![w] = AbsentRow]
  /\ locked' = [locked EXCEPT ![w] = {}]
  /\ UNCHANGED << now, dbVars, readerVars, last_done >>
  /\ UNCHANGED screenVars

StartShortCircuit(w) == StartRequest(w, TRUE, FALSE)

Start(w) == StartRequest(w, FALSE, FALSE)

\* the same request, the checks it went through kept in `call` together
\* with the rows it found
StartTraced(w) == StartRequest(w, FALSE, TRUE)

\* menu_items = await analyze_menu_image(...): a list, or the call raises
VisionCall(w) ==
  /\ pc[w] = "vision"
  /\ \E raises \in BOOLEAN, out \in VisionOutputs :
       /\ raises => out = <<>>
       /\ menu_items' = [menu_items EXCEPT ![w] = out]
       /\ pc' = [pc EXCEPT ![w] = IF raises THEN "failed" ELSE "query"]
       /\ hist' = [hist EXCEPT ![pass[w]].vision = @ + 1,
                               ![pass[w]].items = out]
  /\ UNCHANGED << now, dbVars, existing, pending, locked, pass, readerVars,
                  reqs, last_done >>
  /\ UNCHANGED << screenVars, call >>

\* the same await, the list computed by analyze_menu_image from what the
\* vision model answered
AnalyzeImage(w) ==
  /\ pc[w] = "vision"
  /\ \E api \in MenuApiResults :
       LET r == analyze_menu_image(api)
       IN /\ menu_items' = [menu_items EXCEPT ![w] = r.items]
          /\ pc' = [pc EXCEPT ![w] = IF r.raised THEN "failed" ELSE "query"]
          /\ hist' = [hist EXCEPT ![pass[w]].vision = @ + 1,
                                  ![pass[w]].items = r.items,
                                  ![pass[w]].answer = api]
  /\ UNCHANGED << now, dbVars, existing, pending, locked, pass, readerVars,
                  reqs, last_done >>
  /\ UNCHANGED << screenVars, call >>

\* existing = db.query(Restaurant)...first(), then the attribute values of
\* the new or updated row are computed in the session
QueryExisting(w) ==
  /\ pc[w] = "query"
  /\ existing' = [existing EXCEPT ![w] = restaurant]
  /\ pending' = [pending EXCEPT ![w] =
       [present |-> TRUE,
        menu_last_scanned |-> now,
        total_scans |-> IF restaurant.present
                          THEN IntToStr(IntOr(restaurant.total_scans, 0) + 1)
                          ELSE <<1>>,
        pass |-> pass[w]]]
  /\ pc' = [pc EXCEPT ![w] = IF restaurant.present THEN "update"
                                                   ELSE "commit1"]
  /\ hist' = [hist EXCEPT ![pass[w]].ts = now]
  /\ UNCHANGED << now, dbVars, menu_items, locked, pass, readerVars, reqs,
                  last_done >>
  /\ UNCHANGED << screenVars, call >>

\* UPDATE restaurant_menu_items SET is_active = false WHERE restaurant_id =
\* ...: runs at once inside the open transaction, takes the row locks, and
\* waits while another open transaction holds one of them
DeactivateOld(w) ==
  /\ pc[w] = "update"
  /\ LET target == 1..Len(menu_item_rows)
     IN /\ \A v \in Writers \ {w} : locked[v] \cap target = {}
        /\ locked' = [locked EXCEPT ![w] = target]
  /\ pc' = [pc EXCEPT ![w] = "commit1"]
  /\ UNCHANGED << now, dbVars, menu_items, existing, pending, pass,
                  readerVars, hist, reqs, last_done >>
  /\ UNCHANGED << screenVars, call >>

DeactivateNone(rows, ids) == rows

DeactivateByDelete(rows, ids) == SubSeq(rows, Cardinality(ids) + 1, Len(rows))

\* the rows of ids with is_active set to false
Deactivate(rows, ids) ==
  [i \in 1..Len(rows) |->
     IF i \in ids THEN [rows[i] EXCEPT !.is_active = FALSE] ELSE rows[i]]

\* first db.commit(): flushes the INSERT or UPDATE of the Restaurant row and
\* commits it together with the deactivation; the INSERT fails on the unique
\* google_place_id when another session has created the row meanwhile
Commit1(w) ==
  /\ pc[w] = "commit1"
  /\ IF ~existing[w].present /\ restaurant.present
       THEN /\ pc' = [pc EXCEPT ![w] = "failed"]
            /\ UNCHANGED << dbVars, hist >>
       ELSE /\ restaurant' = pending[w]
            /\ menu_item_rows' = Deactivate(menu_item_rows, locked[w])
            /\ hist' = [hist EXCEPT ![pass[w]].c1 = TRUE]
            /\ pc' = [pc EXCEPT ![w] = "commit2"]
  /\ locked' = [locked EXCEPT ![w] = {}]
  /\ existing' = [existing EXCEPT ![w] = AbsentRow]
  /\ pending' = [pending EXCEPT ![w] = AbsentRow]
  /\ menu_items' = [menu_items EXCEPT ![w] =
                      IF pc'[w] = "failed" THEN <<>> ELSE @]
  /\ UNCHANGED << now, pass, readerVars, reqs, last_done >>
  /\ UNCHANGED << screenVars, call >>

\* the rows built from menu_items, in order
NewRows(items, p) ==
  [k \in 1..Len(items) |->
     [name |-> items[k].name, description |-> items[k].notes,
      price |-> Null, category |-> Null, is_active |-> TRUE,
      pass |-> p, idx |-> k]]

\* the loop over menu_items and the second db.commit(); item["name"] raises
\* KeyError for an item without a name and nothing of the loop is committed
Commit2(w) ==
  /\ pc[w] = "commit2"
  /\ IF \E k \in 1..Len(menu_items[w]) : menu_items[w][k].name = NoName
       THEN /\ pc' = [pc EXCEPT ![w] = "failed"]
            /\ UNCHANGED << menu_item_rows, hist, last_done >>
       ELSE /\ menu_item_rows' =
                 menu_item_rows \o NewRows(menu_items[w], pass[w])
            /\ last_done' = pass[w]
            /\ hist' = [hist EXCEPT ![pass[w]].c2 = TRUE]
            /\ pc' = [pc EXCEPT ![w] = "done"]
  /\ menu_items' = [menu_items EXCEPT ![w] = <<>>]
  /\ UNCHANGED << now, restaurant, existing, pending, locked, pass,
                  readerVars, reqs >>
  /\ UNCHANGED << screenVars, call >>

\* ------------------------------------------------------------------ clock
Tick ==
  /\ now < MaxClock
  /\ now' = now + 1
  /\ UNCHANGED << dbVars, writerVars, readerVars, hist, reqs, last_done >>
  /\ UNCHANGED << screenVars, call >>

\* ---------------------------------------------------------- is_menu_photo
\* the verdict of the except branch: f"Error: {e}" names the exception
ConservativeVerdict(cause) ==
  [is_menu |-> FALSE, confidence |-> 0, reason |-> cause]

\* The whole body runs under "except Exception": the API call, strip(), the
\* fence filter, json.loads, and the log line that reads result['is_menu']
\* and result['confidence'].  The parsed dict is returned as it is: "reason"
\* is never read here.
is_menu_photo(api) ==
  IF api.raised THEN ConservativeVerdict("Error: APIError")
  ELSE LET stripped == StripText(api.text)
           text == IF StartsWithFence(stripped)
                     THEN StripText(DropFences(stripped))
                     ELSE stripped
           parsed == json_loads(text)
       IN IF ~parsed.ok THEN ConservativeVerdict("Error: JSONDecodeError")
          ELSE IF parsed.value.kind # "object"
            THEN ConservativeVerdict("Error: TypeError")
          ELSE IF ~({"is_menu", "confidence"} \subseteq parsed.value.keys)
            THEN ConservativeVerdict("Error: KeyError")
          ELSE [is_menu |-> parsed.value.is_menu,
                confidence |-> parsed.value.confidence,
                reason |-> IF "reason" \in parsed.value.keys
                             THEN parsed.value.reason ELSE NoKey]

\* what the vision model may answer to the menu-detection prompt
GateApiResults ==
  { ApiError,
    ApiText(<<ProseLine>>),
    ApiText(<<JsonLine(ErrorOnlyJson)>>),
    ApiText(<<BlankLine, FenceLine,
              JsonLine(VerdictJson(TRUE, 90, "printed menu")),
              FenceLine, BlankLine>>),
    ApiText(<<JsonLine(VerdictJson(TRUE, 70, "menu board"))>>),
    ApiText(<<IndentedFenceLine,
              JsonLine(VerdictJson(FALSE, 90, "a dish")), FenceLine>>),
    ApiText(<<JsonLine(VerdictJson(TRUE, 90, NoKey))>>),
    ApiText(<<JsonLine(VerdictJson(FALSE, 30, NoKey))>>) }

\* the failures of the vision capability: the call raised, the text holds no
\* single JSON object, or the object lacks one of the three verdict fields
VerdictFields == {"is_menu", "confidence", "reason"}

IsFailure(api) ==
  \/ api.raised
  \/ LET docs == SelectSeq(api.text, LAMBDA l : l.type = "json")
     IN \/ Len(docs) # 1
        \/ \E i \in 1..Len(api.text) : api.text[i].type = "prose"
        \/ docs[1].json.kind # "object"
        \/ ~(VerdictFields \subseteq docs[1].json.keys)

\* ---------------------------------------- download_and_filter_menu_photos
Min(a, b) == IF a < b THEN a ELSE b

\* one call of the function: the arguments and what the places provider has
NoScreening ==
  [active |-> FALSE, details |-> FALSE, total |-> 0, max_photos |-> 0,
   min_confidence |-> 0]

\* debug_info: None, or a dict with the keys it carries
NoDebugInfo ==
  [present |-> FALSE, keys |-> {}, total_photos_on_google |-> 0,
   photos_checked |-> 0, photo_check_results |-> <<>>,
   menu_photos_found |-> 0, min_confidence_threshold |-> 0, error |-> ""]

NoResult == [menu_photos |-> <<>>, debug_info |-> NoDebugInfo]

\* the locals of one call (photos are named by their place in the catalog)
\* and its history: downloads attempted, photos classified with the answer
\* each got, photos whose acceptance was decided
IdleRun ==
  [pc |-> "idle", catalog |-> 0, next |-> 1, stop |-> FALSE,
   photos_checked |-> 0, menu_photos |-> <<>>, photo_check_results |-> <<>>,
   result |-> NoResult, downloads |-> <<>>, classified |-> <<>>,
   decided |-> {}]

\* details["photos"] as get_place_details builds it
PlacesPhotos(total) == Min(total, PlacesPhotoCap)

\* ([], debug_info) of the branch "not details or not details.get('photos')"
NoPhotosResult(debug) ==
  [menu_photos |-> <<>>,
   debug_info |->
     IF debug
       THEN [NoDebugInfo EXCEPT
               !.present = TRUE,
               !.keys = {"total_photos_on_google", "photos_checked",
                         "photo_check_results", "menu_photos_found", "error"},
               !.error = "No photos returned from Google Places API"]
       ELSE NoDebugInfo]

\* get_place_details, then the early return or the locals of the loop
GetDetails ==
  /\ screening.active
  /\ \A d \in BOOLEAN : run[d].pc = "idle"
  /\ run' = [d \in BOOLEAN |->
       IF ~screening.details \/ PlacesPhotos(screening.total) = 0
         THEN [IdleRun EXCEPT !.pc = "returned", !.result = NoPhotosResult(d)]
         ELSE [IdleRun EXCEPT !.pc = "loop",
                              !.catalog = PlacesPhotos(screening.total)]]
  /\ UNCHANGED << storeVars, screening, call >>

\* len(details["photos"][:max_photos])
SliceAll(n, max_photos) == n

SliceLen(n, max_photos) == Min(n, max_photos)

\* detection["is_menu"] and detection["confidence"] >= min_confidence
AcceptsAbove(detection, min_confidence) ==
  detection.is_menu /\ detection.confidence > min_confidence

Accepts(detection, min_confidence) ==
  detection.is_menu /\ detection.confidence >= min_confidence

\* if len(menu_photos) >= 3: break
StopsLate(n) == n >= AcceptLimit + 1

Stops(n) == n >= AcceptLimit

\* the catalog entry the for loop takes after `photo`, whether the download
\* succeeded or the body ended at `continue`
\* (the variant that asks for a photo again when its download failed)
NextPhotoRetrying(photo, downloaded) ==
  IF downloaded THEN photo + 1 ELSE photo

NextPhoto(photo, downloaded) == photo + 1

\* one pass through the loop body for catalog entry r.next: the download,
\* the classification, the debug entry (detection["reason"] raises KeyError
\* when the verdict has no reason), the acceptance test, and the log line of
\* the else branch (the same KeyError)
ExamineStep(r, debug, min_confidence, downloaded, api) ==
  LET photo == r.next
      checked == r.photos_checked + 1
      base == [r EXCEPT !.next = NextPhoto(photo, downloaded),
                        !.photos_checked = checked,
                        !.downloads = Append(@, photo)]
  IN IF ~downloaded
       THEN [base EXCEPT !.photo_check_results =
               IF debug
                 THEN Append(@, [photo_number |-> checked, photo |-> photo,
                                 download_success |-> FALSE, is_menu |-> FALSE,
                                 confidence |-> 0, reason |-> NoKey,
                                 accepted |-> FALSE,
                                 error |-> "Failed to download photo"])
                 ELSE @]
     ELSE
       LET detection == is_menu_photo(api)
           seen == [base EXCEPT !.classified =
                      Append(@, [photo |-> photo, failure |-> IsFailure(api),
                                 detection |-> detection])]
       IN IF debug /\ detection.reason = NoKey
            THEN [seen EXCEPT !.pc = "raised"]
          ELSE
            LET logged == [seen EXCEPT
                     !.decided = @ \cup {photo},
                     !.photo_check_results =
                        IF debug
                          THEN Append(@, [photo_number |-> checked,
                                 photo |-> photo, download_success |-> TRUE,
                                 is_menu |-> detection.is_menu,
                                 confidence |-> detection.confidence,
                                 reason |-> detection.reason,
                                 accepted |->
                                   Accepts(detection, min_confidence),
                                 error |-> ""])
                          ELSE @]
            IN IF Accepts(detection, min_confidence)
                 THEN [logged EXCEPT
                         !.menu_photos =
                            Append(@, [photo |-> photo,
                                       detection |-> detection]),
                         !.stop = Stops(Len(logged.menu_photos) + 1)]
               ELSE IF detection.reason = NoKey
                 THEN [logged EXCEPT !.pc = "raised"]
               ELSE logged

\* the loop goes on: no break yet and the slice has another entry
InLoop(r) ==
  /\ r.pc = "loop"
  /\ ~r.stop
  /\ r.next <= SliceLen(r.catalog, screening.max_photos)

\* the next catalog entry, with the same download outcome and the same
\* answer of the vision model in either mode
ExaminePhoto ==
  /\ \E d \in BOOLEAN : InLoop(run[d])
  /\ \E downloaded \in BOOLEAN, api \in GateApiResults :
       /\ ~downloaded => api = ApiError
       /\ run' = [d \in BOOLEAN |->
            IF InLoop(run[d])
              THEN ExamineStep(run[d], d, screening.min_confidence,
                               downloaded, api)
              ELSE run[d]]
  /\ UNCHANGED << storeVars, screening, call >>

\* after the loop: debug_info and the return
ReturnPhotos ==
  /\ \E d \in BOOLEAN : run[d].pc = "loop" /\ ~InLoop(run[d])
  /\ run' = [d \in BOOLEAN |->
       IF run[d].pc = "loop" /\ ~InLoop(run[d])
         THEN [run[d] EXCEPT
                 !.pc = "returned",
                 !.result =
                    [menu_photos |-> run[d].menu_photos,
                     debug_info |->
                       IF d
                         THEN [NoDebugInfo EXCEPT
                                 !.present = TRUE,
                                 !.keys = {"total_photos_on_google",
                                           "photos_checked",
                                           "photo_check_results",
                                           "menu_photos_found",
                                           "min_confidence_threshold"},
                                 !.total_photos_on_google = run[d].catalog,
                                 !.photos_checked = run[d].photos_checked,
                                 !.photo_check_results =
                                    run[d].photo_check_results,
                                 !.menu_photos_found =
                                    Len(run[d].menu_photos),
                                 !.min_confidence_threshold =
                                    screening.min_confidence]
                         ELSE NoDebugInfo]]
         ELSE run[d]]
  /\ UNCHANGED << storeVars, screening, call >>

\* the lists of at most n elements of S
ListsUpTo(S, n) == UNION { [1..k -> S] : k \in 0..n }

\* ------------------------------------------------- deduplicate_menu_items
\* the items photos may yield: a name, and notes or no "notes" key
NoNotes == <<"<missing key>">>

NameGardenSalad ==
  <<"G", "a", "r", "d", "e", "n", " ", "S", "a", "l", "a", "d">>
NameGardenSaladVariant ==
  <<"g", "a", "r", "d", "e", "n", " ", "s", "a", "l", "a", "d", " ">>
NameChickenCaesar ==
  <<"C", "h", "i", "c", "k", "e", "n", " ", "C", "a", "e", "s", "a", "r">>

DedupNames == {NameGardenSalad, NameGardenSaladVariant, NameChickenCaesar}

NotesWithNuts == <<"w", "i", "t", "h", " ", "n", "u", "t", "s">>

DedupNotes == {NoNotes, <<>>, <<"o", "k">>, NotesWithNuts}

DedupItems == { [name |-> n, notes |-> t] : n \in DedupNames, t \in DedupNotes }

\* item.get("notes", "")
NotesOf(item) == IF item.notes = NoNotes THEN <<>> ELSE item.notes

\* seen_items, a dict in insertion order: the sequence of its (key, item)
\* pairs; the place of key in it, 0 when absent
IndexOfKey(seen, key) ==
  IF \E i \in 1..Len(seen) : seen[i].key = key
    THEN CHOOSE i \in 1..Len(seen) : seen[i].key = key
    ELSE 0

\* len(item.get("notes", "")) > len(existing.get("notes", ""))
LongerOrEqualNotes(item, kept) ==
  Len(NotesOf(item)) >= Len(NotesOf(kept))

ShorterNotes(item, kept) == Len(NotesOf(item)) < Len(NotesOf(kept))

LongerNotes(item, kept) == Len(NotesOf(item)) > Len(NotesOf(kept))

\* the body of the loop: a new key is added at the end, a known key keeps
\* its place and takes the item with the longer notes
PutAlways(seen, key, item) == Append(seen, [key |-> key, item |-> item])

Put(seen, key, item) ==
  LET i == IndexOfKey(seen, key)
  IN IF i = 0 THEN Append(seen, [key |-> key, item |-> item])
     ELSE IF LongerNotes(item, seen[i].item)
       THEN [seen EXCEPT ![i].item = item]
     ELSE seen

\* seen_items after the loop over items
RECURSIVE SeenItems(_)
SeenItems(items) ==
  IF Len(items) = 0 THEN <<>>
  ELSE LET item == items[Len(items)]
       IN Put(SeenItems(SubSeq(items, 1, Len(items) - 1)), Key(item.name),
              item)

\* list(seen_items.values())
SeenValuesReversed(seen) ==
  [i \in 1..Len(seen) |-> seen[Len(seen) + 1 - i].item]

SeenValues(seen) == [i \in 1..Len(seen) |-> seen[i].item]

deduplicate_menu_items(items) == SeenValues(SeenItems(items))

\* the call under study and a second call on what the first returned
NoDedup ==
  [fn |-> "deduplicate_menu_items", items |-> <<>>, step |-> 0,
   out |-> <<>>, again |-> <<>>]

Deduplicate ==
  /\ call.fn = "deduplicate_menu_items"
  /\ call.step = 0
  /\ call' = [call EXCEPT !.step = 1,
                          !.out = deduplicate_menu_items(call.items)]
  /\ UNCHANGED << storeVars, screenVars >>

DeduplicateAgain ==
  /\ call.fn = "deduplicate_menu_items"
  /\ call.step = 1
  /\ call' = [call EXCEPT !.step = 2,
                          !.again = deduplicate_menu_items(call.out)]
  /\ UNCHANGED << storeVars, screenVars >>

\* -------------------------------------------------- load_protocol_triggers
\* the keys of protocol_files: the ids that have a definition file
protocol_files == valid_protocols

\* trigger strings, each the sequence of its characters
Garlic == <<"G", "a", "r", "l", "i", "c">>
GarlicVariant == <<"g", "a", "r", "l", "i", "c", " ">>
Milk == <<"m", "i", "l", "k">>
Sugar == <<"s", "u", "g", "a", "r">>
Tofu == <<"t", "o", "f", "u">>

\* a dict without entries
EmptyMap == <<>>

\* The JSON of a definition file: a key that is absent reads as None (the
\* texts) or as an empty dict or list.
NoData ==
  [protocol_id |-> "None", protocol_name |-> "None", description |-> "None",
   trigger_categories |-> EmptyMap, high_fodmap_categories |-> EmptyMap,
   illegal_categories |-> EmptyMap, high_residue_categories |-> EmptyMap,
   common_restaurant_triggers |-> <<>>, safe_alternatives |-> <<>>]

VeganData ==
  [NoData EXCEPT
     !.protocol_id = "vegan", !.protocol_name = "Vegan",
     !.description = "no animal products",
     !.trigger_categories =
        [c \in {"dairy", "hidden"} |->
           IF c = "dairy"
             THEN [description |-> "milk products", triggers |-> <<Milk>>]
             ELSE [description |-> "None", triggers |-> <<Milk, Garlic>>]],
     !.common_restaurant_triggers = <<Milk>>,
     !.safe_alternatives = <<Tofu>>]

VeganDataPlain ==
  [NoData EXCEPT
     !.protocol_id = "vegan", !.protocol_name = "Vegan",
     !.description = "no animal products",
     !.trigger_categories =
        [c \in {"dairy"} |->
           [description |-> "milk products", triggers |-> <<Milk>>]],
     !.safe_alternatives = <<Tofu>>]

KetoData ==
  [NoData EXCEPT
     !.protocol_id = "keto", !.protocol_name = "Keto",
     !.description = "low carbohydrate",
     !.illegal_categories =
        [c \in {"sugars"} |->
           [description |-> "added sugar",
            triggers |-> <<Sugar, GarlicVariant>>]],
     !.common_restaurant_triggers = <<Sugar, Milk>>,
     !.safe_alternatives = <<Tofu, Milk>>]

\* what open() and json.load find for an id of protocol_files
FileOf(data) == [state |-> "ok", data |-> data]
MissingFile == [state |-> "missing", data |-> NoData]
InvalidFile == [state |-> "invalid", data |-> NoData]

FileIds == {"vegan", "keto"}        \* the ids whose files the lists reach
ProtocolIds == FileIds \cup {"atkins"}     \* atkins: not in protocol_files

FileStates(id) ==
  IF id = "vegan"
    THEN {FileOf(VeganData), FileOf(VeganDataPlain), MissingFile, InvalidFile}
    ELSE {FileOf(KetoData), MissingFile, InvalidFile}

\* the elements of a JSON list
Elements(list) == { list[i] : i \in 1..Len(list) }

\* data.get("trigger_categories") or data.get("high_fodmap_categories") or
\* data.get("illegal_categories") or data.get("high_residue_categories", {})
Categories(data) ==
  IF data.trigger_categories # EmptyMap THEN data.trigger_categories
  ELSE IF data.high_fodmap_categories # EmptyMap
    THEN data.high_fodmap_categories
  ELSE IF data.illegal_categories # EmptyMap THEN data.illegal_categories
  ELSE data.high_residue_categories

\* combined_triggers before the loop; the three sets become lists at the
\* end, in the arbitrary order of the set, and are kept as sets here
NoTriggers ==
  [raised |-> FALSE, protocols |-> <<>>, all_triggers |-> {},
   common_restaurant_triggers |-> {}, safe_alternatives |-> {},
   detailed_triggers |-> EmptyMap]

\* the call did not return: the handlers of FileNotFoundError and
\* json.JSONDecodeError format file_path, a name the function does not have,
\* and NameError leaves the function
NameErrorRaised == [NoTriggers EXCEPT !.raised = TRUE]

\* set.update(list)
UpdateIfEmpty(set, list) == IF set = {} THEN Elements(list) ELSE set

Update(set, list) == set \cup Elements(list)

\* the triggers of all categories of a definition, added one category after
\* the other
RECURSIVE UpdateAll(_, _, _)
UpdateAll(set, categories, names) ==
  IF names = {} THEN set
  ELSE LET c == CHOOSE n \in names : TRUE
       IN UpdateAll(Update(set, categories[c].triggers), categories,
                    names \ {c})

\* one pass through the loop body for protocol
LoadProtocol(acc, protocol, files) ==
  IF acc.raised THEN acc
  ELSE IF protocol \notin protocol_files THEN acc
  ELSE IF files[protocol].state # "ok" THEN NameErrorRaised
  ELSE
    LET data == files[protocol].data
        categories == Categories(data)
        detail == [c \in DOMAIN categories |->
                     [description |-> categories[c].description,
                      triggers |-> categories[c].triggers]]
        old == acc.detailed_triggers
    IN [acc EXCEPT
          !.protocols = Append(@, [id |-> data.protocol_id,
                                   name |-> data.protocol_name,
                                   description |-> data.description]),
          !.all_triggers = UpdateAll(@, categories, DOMAIN categories),
          !.detailed_triggers =
             IF DOMAIN categories = {} THEN old
             ELSE [q \in DOMAIN old \cup {protocol} |->
                     IF q = protocol THEN detail ELSE old[q]],
          !.common_restaurant_triggers =
             Update(@, data.common_restaurant_triggers),
          !.safe_alternatives = Update(@, data.safe_alternatives)]

RECURSIVE load_protocol_triggers(_, _)
load_protocol_triggers(protocols, files) ==
  IF Len(protocols) = 0 THEN NoTriggers
  ELSE LoadProtocol(
         load_protocol_triggers(SubSeq(protocols, 1, Len(protocols) - 1),
                                files),
         protocols[Len(protocols)], files)

\* the call under study: the list, the files, the loop index and
\* combined_triggers
NoCompose ==
  [fn |-> "load_protocol_triggers", protocols |-> <<>>, files |-> EmptyMap,
   next |-> 1, combined_triggers |-> NoTriggers, returned |-> FALSE]

LoadNext ==
  /\ call.fn = "load_protocol_triggers"
  /\ ~call.returned
  /\ ~call.combined_triggers.raised
  /\ call.next <= Len(call.protocols)
  /\ call' = [call EXCEPT
                !.next = @ + 1,
                !.combined_triggers =
                   LoadProtocol(@, call.protocols[call.next], call.files)]
  /\ UNCHANGED << storeVars, screenVars >>

\* the sets become lists and the function returns
ReturnTriggers ==
  /\ call.fn = "load_protocol_triggers"
  /\ ~call.returned
  /\ ~call.combined_triggers.raised
  /\ call.next > Len(call.protocols)
  /\ call' = [call EXCEPT !.returned = TRUE]
  /\ UNCHANGED << storeVars, screenVars >>

\* ------------------------------------ nearby_search, get_nearby_restaurants
\* A candidate of the provider: its place in the order of delivery and its
\* Haversine distance from the origin, in tenths of a metre.
CandidateDistances == {12, 17, 20, 25}
RadiusArgs == {1, 2}        \* radius_meters

\* what one request to the provider brings: a RequestException, a status
\* other than OK and ZERO_RESULTS, or results with or without a
\* next_page_token
PageOutcomes == {"RequestException", "OVER_QUERY_LIMIT", "OK"}

\* int(calculate_distance(...))
DistanceMeters(dist) == dist \div 10

\* distance <= radius_meters
WithinRadius(dist, radius_meters) == dist <= radius_meters * 10

\* the filter after the loop, for rank_by_distance and a radius that is not 0
FilterByRadius(restaurants, radius_meters) ==
  IF radius_meters # 0
    THEN SubSeq(SelectSeq(restaurants,
                          LAMBDA r : WithinRadius(r.dist, radius_meters)),
                1, Min(MaxResults,
                       Len(SelectSeq(restaurants,
                             LAMBDA r : WithinRadius(r.dist,
                                                     radius_meters)))))
    ELSE restaurants

\* results.sort(key=lambda x: x["distance_meters"]): stable
RECURSIVE SortByDistance(_)
SortByDistance(results) ==
  IF Len(results) = 0 THEN <<>>
  ELSE LET last == results[Len(results)]
           rest == SortByDistance(SubSeq(results, 1, Len(results) - 1))
           before == SelectSeq(rest, LAMBDA r :
                        r.distance_meters <= last.distance_meters)
           after == SelectSeq(rest, LAMBDA r :
                        r.distance_meters > last.distance_meters)
       IN before \o <<last>> \o after

\* the request under study: the locals of nearby_search, what it returned
\* and the listing of the handler
NoNearby ==
  [fn |-> "get_nearby_restaurants", radius_meters |-> 0,
   restaurants |-> <<>>, pages_fetched |-> 0, page_failed |-> FALSE,
   phase |-> "search", google_restaurants |-> <<>>, results |-> <<>>]

\* one pass through the while loop: the request, the status check, the
\* results appended, the page token; the loop ends on a status break, on a
\* missing token, after max_pages pages or with max_results restaurants, and
\* the filter follows; a RequestException returns the list as it stands
FetchPage ==
  /\ call.fn = "get_nearby_restaurants"
  /\ call.phase = "search"
  /\ \E outcome \in PageOutcomes,
        page \in ListsUpTo(CandidateDistances, MaxPageSize),
        next_page_token \in BOOLEAN :
       /\ outcome # "OK" => (page = <<>> /\ ~next_page_token)
       /\ LET n == Len(call.restaurants)
              room == Min(Len(page), MaxResults - n)
              restaurants ==
                call.restaurants \o
                  [k \in 1..room |-> [place |-> n + k, dist |-> page[k]]]
              fetched == call.pages_fetched + 1
              goes_on == /\ next_page_token
                         /\ fetched < MaxPages
                         /\ Len(restaurants) < MaxResults
          IN call' =
               IF outcome = "RequestException"
                 THEN [call EXCEPT !.phase = "searched",
                                   !.page_failed = TRUE,
                                   !.google_restaurants = call.restaurants]
               ELSE IF outcome # "OK"
                 THEN [call EXCEPT
                         !.phase = "searched",
                         !.google_restaurants =
                            FilterByRadius(call.restaurants,
                                           call.radius_meters)]
               ELSE [call EXCEPT
                       !.restaurants = restaurants,
                       !.pages_fetched = fetched,
                       !.phase = IF goes_on THEN "search" ELSE "searched",
                       !.google_restaurants =
                          IF goes_on THEN <<>>
                          ELSE FilterByRadius(restaurants,
                                              call.radius_meters)]
  /\ UNCHANGED << storeVars, screenVars >>

\* the handler: one entry per restaurant with its distance in whole metres,
\* then the sort
ListNearby ==
  /\ call.fn = "get_nearby_restaurants"
  /\ call.phase = "searched"
  /\ call' = [call EXCEPT
                !.phase = "returned",
                !.results =
                   SortByDistance(
                     [k \in 1..Len(call.google_restaurants) |->
                        [place |-> call.google_restaurants[k].place,
                         dist |-> call.google_restaurants[k].dist,
                         distance_meters |->
                           DistanceMeters(
                             call.google_restaurants[k].dist)]])]
  /\ UNCHANGED << storeVars, screenVars >>

\* ------------- get_restaurant_details, search_restaurants, nearby status
\* The handlers that read the store next to get_restaurant_menu; what they
\* answer is kept in `call`.
NoRead ==
  [fn |-> "none", phase |-> "returned", status |-> 0,
   has_menu_data |-> FALSE, menu_item_count |-> 0, last_analyzed |-> Null,
   active_then |-> 0]

\* db.query(RestaurantMenuItem).filter(restaurant_id == ...).count()
CountRows(rows) == Len(rows)

\* get_restaurant_details up to the query of the Restaurant row: 404 when
\* the places provider does not know the place; without a row the answer
\* follows at once
DetailsLookup ==
  /\ call.phase = "returned"
  /\ \E details \in BOOLEAN :
       call' =
         IF ~details
           THEN [NoRead EXCEPT !.fn = "get_restaurant_details",
                               !.status = 404]
         ELSE IF ~restaurant.present
           THEN [NoRead EXCEPT !.fn = "get_restaurant_details",
                               !.status = 200]
         ELSE [NoRead EXCEPT !.fn = "get_restaurant_details",
                             !.phase = "count",
                             !.has_menu_data = TRUE,
                             !.last_analyzed = restaurant.menu_last_scanned]
  /\ UNCHANGED << storeVars, screenVars >>

\* the count of the rows of the restaurant, and the answer; active_then is
\* the number of active rows at the moment of the count
DetailsCount ==
  /\ call.fn = "get_restaurant_details"
  /\ call.phase = "count"
  /\ call' = [call EXCEPT
                !.phase = "returned",
                !.status = 200,
                !.menu_item_count = CountRows(menu_item_rows),
                !.active_then = Cardinality(ActiveIds(menu_item_rows))]
  /\ UNCHANGED << storeVars, screenVars >>

\* search_restaurants: the text search finds the place or nothing, then the
\* query of the Restaurant row
SearchRestaurants ==
  /\ call.phase = "returned"
  /\ \E result \in BOOLEAN :
       call' = [NoRead EXCEPT !.fn = "search_restaurants",
                              !.status = 200,
                              !.has_menu_data =
                                 result /\ restaurant.present]
  /\ UNCHANGED << storeVars, screenVars >>

\* get_nearby_restaurants from the query of the Restaurant rows on: the
\* place is among the candidates of the provider or not, protocols are
\* given or not
NearbyStatus ==
  /\ call.phase = "returned"
  /\ \E listed \in BOOLEAN, protocols \in BOOLEAN :
       LET our_rest == listed /\ restaurant.present
       IN call' = [NoRead EXCEPT
                     !.fn = "get_nearby_restaurants",
                     !.status = 200,
                     !.has_menu_data = our_rest,
                     !.last_analyzed =
                        IF our_rest /\ protocols
                          THEN restaurant.menu_last_scanned
                          ELSE Null]
  /\ UNCHANGED << storeVars, screenVars >>

\* ------------------------------------------- auth: login, refresh, logout
\* One user is modelled, so a refresh token is determined by the second of
\* its "exp" claim: jwt.encode of {sub, exp, type} is a function of its
\* payload, and so is the sha256 stored as token_hash.  The handlers take no
\* lock on the row they read, so a request is two steps: its query, then
\* the writes it commits.
AuthSessions == {1, 2}
TickSteps == {1, RefreshTokenLife}   \* a second passes, or the lifetime

create_refresh_token(utcnow) == utcnow + RefreshTokenLife

\* verify_token: jose rejects a token whose exp lies before the clock
verify_token(token, utcnow) == token >= utcnow

\* the filter of refresh: the hash, not revoked, not expired
FindUsable(refresh_tokens, token, utcnow) ==
  /\ token \in DOMAIN refresh_tokens
  /\ ~refresh_tokens[token].is_revoked
  /\ refresh_tokens[token].expires_at > utcnow

\* the filter of logout: the hash, not revoked
FindUnrevoked(refresh_tokens, token) ==
  /\ token \in DOMAIN refresh_tokens
  /\ ~refresh_tokens[token].is_revoked

\* db.add of a RefreshToken row
AddToken(refresh_tokens, token, utcnow) ==
  [t \in DOMAIN refresh_tokens \cup {token} |->
     IF t = token
       THEN [expires_at |-> utcnow + RefreshTokenLife, is_revoked |-> FALSE]
       ELSE refresh_tokens[t]]

\* token_record.is_revoked = True
Revoke(refresh_tokens, token) ==
  [refresh_tokens EXCEPT ![token].is_revoked = TRUE]

IdleSession == [pc |-> "idle", token |-> Null, after_spent |-> FALSE]
NoAuthResponse == [op |-> "none", token |-> Null, status |-> 0]

\* exchanged: the tokens of the refresh requests answered 200, in order;
\* spent: the tokens a refresh answered 200 or a logout was answered for
NoAuth ==
  [fn |-> "auth", utcnow |-> 0, ticks |-> 0, requests |-> 0,
   refresh_tokens |-> <<>>,
   sess |-> [s \in AuthSessions |-> IdleSession],
   exchanged |-> <<>>, spent |-> {}, last |-> NoAuthResponse]

\* /auth/login of the one user with the right password: the token row is
\* inserted and committed; token_hash is unique, so a token equal to a
\* stored one fails the commit with an IntegrityError
Login ==
  /\ call.fn = "auth"
  /\ call.requests < MaxAuthRequests
  /\ LET token == create_refresh_token(call.utcnow)
     IN call' =
          IF token \in DOMAIN call.refresh_tokens
            THEN [call EXCEPT
                    !.requests = @ + 1,
                    !.last = [op |-> "login", token |-> token,
                              status |-> 500]]
            ELSE [call EXCEPT
                    !.requests = @ + 1,
                    !.refresh_tokens = AddToken(@, token, call.utcnow),
                    !.last = [op |-> "login", token |-> token,
                              status |-> 200]]
  /\ UNCHANGED << storeVars, screenVars >>

\* /auth/refresh up to the query of the token row: 401 for a token that
\* does not verify or has no usable row
RefreshQuery(s) ==
  /\ call.fn = "auth"
  /\ call.requests < MaxAuthRequests
  /\ call.sess[s].pc = "idle"
  /\ \E token \in DOMAIN call.refresh_tokens :
       call' =
         IF /\ verify_token(token, call.utcnow)
            /\ FindUsable(call.refresh_tokens, token, call.utcnow)
           THEN [call EXCEPT
                   !.requests = @ + 1,
                   !.sess[s] = [pc |-> "refresh", token |-> token,
                                after_spent |-> token \in call.spent]]
           ELSE [call EXCEPT
                   !.requests = @ + 1,
                   !.last = [op |-> "refresh", token |-> token,
                             status |-> 401]]
  /\ UNCHANGED << storeVars, screenVars >>

\* /auth/refresh from the new tokens to the commit: the row read is marked
\* revoked and the new row inserted, in one transaction; an equal
\* token_hash fails the commit and the transaction is rolled back
RefreshCommit(s) ==
  /\ call.fn = "auth"
  /\ call.sess[s].pc = "refresh"
  /\ LET token == call.sess[s].token
         new_refresh_token == create_refresh_token(call.utcnow)
     IN call' =
          IF new_refresh_token \in DOMAIN call.refresh_tokens
            THEN [call EXCEPT
                    !.sess[s] = IdleSession,
                    !.last = [op |-> "refresh", token |-> token,
                              status |-> 500]]
            ELSE [call EXCEPT
                    !.sess[s] = IdleSession,
                    !.refresh_tokens =
                       AddToken(Revoke(@, token), new_refresh_token,
                                call.utcnow),
                    !.exchanged = Append(@, token),
                    !.spent = @ \cup {token},
                    !.last = [op |-> "refresh", token |-> token,
                              status |-> 200]]
  /\ UNCHANGED << storeVars, screenVars >>

\* /auth/logout up to the query: no row to revoke is a success as well
LogoutQuery(s) ==
  /\ call.fn = "auth"
  /\ call.requests < MaxAuthRequests
  /\ call.sess[s].pc = "idle"
  /\ \E token \in DOMAIN call.refresh_tokens :
       call' =
         IF FindUnrevoked(call.refresh_tokens, token)
           THEN [call EXCEPT
                   !.requests = @ + 1,
                   !.sess[s] = [pc |-> "logout", token |-> token,
                                after_spent |-> token \in call.spent]]
           ELSE [call EXCEPT
                   !.requests = @ + 1,
                   !.spent = @ \cup {token},
                   !.last = [op |-> "logout", token |-> token,
                             status |-> 200]]
  /\ UNCHANGED << storeVars, screenVars >>

\* /auth/logout: the row is marked revoked and committed
LogoutCommit(s) ==
  /\ call.fn = "auth"
  /\ call.sess[s].pc = "logout"
  /\ LET token == call.sess[s].token
     IN call' = [call EXCEPT
                   !.sess[s] = IdleSession,
                   !.refresh_tokens = Revoke(@, token),
                   !.spent = @ \cup {token},
                   !.last = [op |-> "logout", token |-> token,
                             status |-> 200]]
  /\ UNCHANGED << storeVars, screenVars >>

\* datetime.utcnow() moves on
AuthTick ==
  /\ call.fn = "auth"
  /\ call.ticks < MaxAuthTicks
  /\ \E step \in TickSteps :
       call' = [call EXCEPT !.utcnow = @ + step, !.ticks = @ + 1]
  /\ UNCHANGED << storeVars, screenVars >>

\* ------------------------------------- scans and bookmarks of the users
\* ScanHistory and Bookmark rows, a row id being its index; a deleted row
\* leaves its index behind.  Caller 0 presents no valid access token.
Users == {1, 2}
Callers == {0} \cup Users
Tables == {"scans", "bookmarks"}

NoOwnedRow == [user_id |-> 0, present |-> FALSE]
NoOwnedResponse ==
  [op |-> "none", user |-> 0, id |-> 0, status |-> 0, owner |-> 0,
   returned |-> NoOwnedRow, kept |-> FALSE]

NoOwned ==
  [fn |-> "owned", requests |-> 0,
   rows |-> [t \in Tables |-> <<>>], last |-> NoOwnedResponse]

\* the row the id names, whoever owns it
RowOf(rows, id) ==
  IF id \in 1..Len(rows) /\ rows[id].present THEN rows[id] ELSE NoOwnedRow

\* (the variant whose query filters by the id alone)
FindById(rows, id, user) == RowOf(rows, id)

\* db.query(...).filter(id == ..., user_id == current_user.id).first()
FindOwned(rows, id, user) ==
  IF RowOf(rows, id).user_id = user THEN RowOf(rows, id) ELSE NoOwnedRow

\* db.delete(row); db.commit()
DeleteRow(rows, id) == [rows EXCEPT ![id] = NoOwnedRow]

\* a row is saved for the authenticated user: the scan of analyze_menu, the
\* bookmark of create_bookmark
SaveRow(table) ==
  /\ call.fn = "owned"
  /\ call.requests < MaxOwnedRequests
  /\ Len(call.rows[table]) < MaxOwnedRows
  /\ \E user \in Users :
       call' = [call EXCEPT
                  !.requests = @ + 1,
                  !.rows[table] =
                     Append(@, [user_id |-> user, present |-> TRUE]),
                  !.last = [NoOwnedResponse EXCEPT
                              !.op = "save", !.user = user,
                              !.id = Len(call.rows[table]) + 1,
                              !.status = 200]]
  /\ UNCHANGED << storeVars, screenVars >>

\* get_scan: 401 without a valid token, 404 when the query finds no row
get_scan ==
  /\ call.fn = "owned"
  /\ call.requests < MaxOwnedRequests
  /\ \E user \in Callers, id \in 1..MaxOwnedRows :
       LET rows == call.rows["scans"]
           scan == FindOwned(rows, id, user)
           answer == [NoOwnedResponse EXCEPT
                        !.op = "get_scan", !.user = user, !.id = id,
                        !.owner = RowOf(rows, id).user_id,
                        !.kept = RowOf(rows, id).present]
       IN call' = [call EXCEPT
                     !.requests = @ + 1,
                     !.last =
                        IF user \notin Users
                          THEN [answer EXCEPT !.status = 401]
                        ELSE IF ~scan.present
                          THEN [answer EXCEPT !.status = 404]
                        ELSE [answer EXCEPT !.status = 200,
                                            !.returned = scan]]
  /\ UNCHANGED << storeVars, screenVars >>

\* delete_scan and delete_bookmark: the same query, then the delete
DeleteOwned(table) ==
  /\ call.fn = "owned"
  /\ call.requests < MaxOwnedRequests
  /\ \E user \in Callers, id \in 1..MaxOwnedRows :
       LET rows == call.rows[table]
           row == FindOwned(rows, id, user)
           found == user \in Users /\ row.present
           after == IF found THEN DeleteRow(rows, id) ELSE rows
           answer == [NoOwnedResponse EXCEPT
                        !.op = "delete", !.user = user, !.id = id,
                        !.owner = RowOf(rows, id).user_id,
                        !.kept = RowOf(after, id) = RowOf(rows, id)]
       IN call' = [call EXCEPT
                     !.requests = @ + 1,
                     !.rows[table] = after,
                     !.last =
                        IF user \notin Users
                          THEN [answer EXCEPT !.status = 401]
                        ELSE IF ~found
                          THEN [answer EXCEPT !.status = 404]
                        ELSE [answer EXCEPT !.status = 200,
                                            !.returned = row]]
  /\ UNCHANGED << storeVars, screenVars >>

\* ------------------------------------------- protocol ids at the entry points
\* the ids listed by GET /protocols
advertised_protocols ==
  { "low_fodmap", "scd", "low_residue", "gluten_free", "dairy_free",
    "nut_free", "peanut_free", "soy_free", "egg_free", "shellfish_free",
    "fish_free", "pork_free", "red_meat_free", "vegan", "vegetarian",
    "paleo", "keto", "low_histamine" }

\* valid_protocols of analyze_menu
analyze_menu_protocols ==
  { "low_fodmap", "scd", "low_residue", "gluten_free", "dairy_free",
    "nut_free", "peanut_free", "soy_free", "egg_free", "shellfish_free",
    "fish_free", "pork_free", "red_meat_free", "vegan", "vegetarian",
    "paleo", "keto", "low_histamine" }

\* valid_protocols of update_preferences
preference_protocols ==
  { "low_fodmap", "gluten_free", "dairy_free", "nut_free",
    "soy_free", "egg_free", "shellfish_free", "fish_free",
    "pork_free", "red_meat_free", "vegan", "vegetarian",
    "paleo", "keto", "low_histamine" }

EntryPoints == {"analyze_menu", "analyze_restaurant_menu",
                "update_preferences", "_load_protocol_file"}

\* the ids a client may send: the advertised ones and some others
SubmittedIds == advertised_protocols \cup {"atkins", "SCD", ""}

\* the membership test of the entry point
AcceptedAt(entry) ==
  CASE entry = "analyze_menu" -> analyze_menu_protocols
    [] entry = "analyze_restaurant_menu" -> valid_protocols
    [] entry = "update_preferences" -> preference_protocols
    [] entry = "_load_protocol_file" -> protocol_files

NoSubmit == [fn |-> "protocols", requests |-> 0, entry |-> "none",
             protocol |-> "", accepted |-> FALSE]

\* a request naming one protocol id reaches the validation of the entry
\* point: the loop raises 400 for an id outside its list (None for
\* _load_protocol_file)
Submit(entry) ==
  /\ call.fn = "protocols"
  /\ call.requests < MaxIdRequests
  /\ \E protocol \in SubmittedIds :
       call' = [fn |-> "protocols", requests |-> call.requests + 1,
                entry |-> entry, protocol |-> protocol,
                accepted |-> protocol \in AcceptedAt(entry)]
  /\ UNCHANGED << storeVars, screenVars >>

\* ------------------------------------------- fenced and bare responses
\* A JSON payload as the vision model may send it: bare, or between a
\* leading and a trailing code-fence line, with white space around the whole
\* (blank lines before and after, blanks in front of the first fence).
FencedPayloads ==
  { MenuJson(<<ItemA, ItemB>>), MenuJson(<<>>), EmptyWithErrorJson,
    VerdictJson(TRUE, 90, "printed menu"), VerdictJson(FALSE, 30, "a dish"),
    VerdictJson(TRUE, 70, NoKey) }

Blanks == {<<>>, <<BlankLine>>}
LeadingFences == {FenceLine, IndentedFenceLine}

Bare(payload) == ApiText(<<JsonLine(payload)>>)

Wrapped(payload, before, fence, after) ==
  ApiText(before \o <<fence, JsonLine(payload), FenceLine>> \o after)

NotRun == [run |-> FALSE]
Ran(result) == [run |-> TRUE, result |-> result]

NoFence ==
  [fn |-> "fence", payload |-> NoJson, before |-> <<>>,
   fence |-> FenceLine, after |-> <<>>,
   menu_bare |-> NotRun, menu_wrapped |-> NotRun,
   verdict_bare |-> NotRun, verdict_wrapped |-> NotRun]

WrappedOf(c) == Wrapped(c.payload, c.before, c.fence, c.after)

\* analyze_menu_image on the bare payload, and on the wrapped one
AnalyzeBare ==
  /\ call.fn = "fence"
  /\ ~call.menu_bare.run
  /\ call' = [call EXCEPT
                !.menu_bare = Ran(analyze_menu_image(Bare(call.payload)))]
  /\ UNCHANGED << storeVars, screenVars >>

AnalyzeWrapped ==
  /\ call.fn = "fence"
  /\ ~call.menu_wrapped.run
  /\ call' = [call EXCEPT
                !.menu_wrapped = Ran(analyze_menu_image(WrappedOf(call)))]
  /\ UNCHANGED << storeVars, screenVars >>

\* is_menu_photo on the bare payload, and on the wrapped one
ClassifyBare ==
  /\ call.fn = "fence"
  /\ ~call.verdict_bare.run
  /\ call' = [call EXCEPT
                !.verdict_bare = Ran(is_menu_photo(Bare(call.payload)))]
  /\ UNCHANGED << storeVars, screenVars >>

ClassifyWrapped ==
  /\ call.fn = "fence"
  /\ ~call.verdict_wrapped.run
  /\ call' = [call EXCEPT
                !.verdict_wrapped = Ran(is_menu_photo(WrappedOf(call)))]
  /\ UNCHANGED << storeVars, screenVars >>

\* --------------------------------------------------------- specifications
SeedItems == <<ItemA, ItemB>>

\* no record yet (seeded false), or the record left by one completed
\* contribution (pass 0) made at tick 0
InitStore(seeded) ==
  /\ restaurant = IF seeded
                    THEN [present |-> TRUE, menu_last_scanned |-> 0,
                          total_scans |-> <<1>>, pass |-> 0]
                    ELSE AbsentRow
  /\ menu_item_rows = IF seeded THEN NewRows(SeedItems, 0) ELSE <<>>
  /\ pc = [w \in Writers |-> "idle"]
  /\ menu_items = [w \in Writers |-> <<>>]
  /\ existing = [w \in Writers |-> AbsentRow]
  /\ pending = [w \in Writers |-> AbsentRow]
  /\ locked = [w \in Writers |-> {}]
  /\ rpc = "idle"
  /\ rrestaurant = AbsentRow
  /\ response = NoResponse
  /\ pass = [w \in Writers |-> 0]
  /\ hist = [p \in Passes |->
               IF seeded /\ p = 0
                 THEN [NoHist EXCEPT !.items = SeedItems, !.ts = 0,
                                     !.c1 = TRUE, !.c2 = TRUE, !.vision = 1]
                 ELSE NoHist]
  /\ reqs = 0
  /\ last_done = 0

\* no screening call is under way, no function call is studied
InitNoScreening ==
  /\ screening = NoScreening
  /\ run = [d \in BOOLEAN |-> IdleRun]
  /\ call = NoCall

Init ==
  /\ now = 0
  /\ \E seeded \in BOOLEAN : InitStore(seeded)
  /\ InitNoScreening

Next ==
  \/ Tick
  \/ ReadRestaurant
  \/ ReadItems
  \/ \E w \in Writers : Start(w)
  \/ \E w \in Writers : VisionCall(w)
  \/ \E w \in Writers : QueryExisting(w)
  \/ \E w \in Writers : DeactivateOld(w)
  \/ \E w \in Writers : Commit1(w)
  \/ \E w \in Writers : Commit2(w)

Spec == Init /\ [][Next]_vars

\* One contributor at a time on a record that is `now` ticks old: requests
\* are short against the clock, which stands still during a behaviour.
InitAged ==
  /\ now \in 0..(MaxAgeDays * TicksPerDay + TicksPerDay - 1)
  /\ InitStore(TRUE)
  /\ InitNoScreening

NextAged ==
  \/ ReadRestaurant
  \/ ReadItems
  \/ \E w \in Solo : Start(w)
  \/ \E w \in Solo : VisionCall(w)
  \/ \E w \in Solo : QueryExisting(w)
  \/ \E w \in Solo : DeactivateOld(w)
  \/ \E w \in Solo : Commit1(w)
  \/ \E w \in Solo : Commit2(w)

SpecAged == InitAged /\ [][NextAged]_vars

\* One contributor, the list of each request computed by analyze_menu_image
\* from the answer of the vision model.
NextMenu ==
  \/ ReadRestaurant
  \/ ReadItems
  \/ \E w \in Solo : Start(w)
  \/ \E w \in Solo : AnalyzeImage(w)
  \/ \E w \in Solo : QueryExisting(w)
  \/ \E w \in Solo : DeactivateOld(w)
  \/ \E w \in Solo : Commit1(w)
  \/ \E w \in Solo : Commit2(w)

SpecMenu == Init /\ [][NextMenu]_vars

\* The same, each request leaving the trace of its checks.
NextTraced ==
  \/ ReadRestaurant
  \/ ReadItems
  \/ \E w \in Solo : StartTraced(w)
  \/ \E w \in Solo : AnalyzeImage(w)
  \/ \E w \in Solo : QueryExisting(w)
  \/ \E w \in Solo : DeactivateOld(w)
  \/ \E w \in Solo : Commit1(w)
  \/ \E w \in Solo : Commit2(w)

SpecTraced == Init /\ [][NextTraced]_vars

\* One call of download_and_filter_menu_photos, followed with
\* return_debug_info true and false on the same catalog, download outcomes
\* and answers of the vision model.
MaxPhotosArgs == {0, 2, DefaultMaxPhotos}
MinConfidenceArgs == {DefaultMinConfidence, 90}

InitScreen ==
  /\ now = 0
  /\ InitStore(FALSE)
  /\ \E details \in BOOLEAN, total \in 0..MaxCatalog,
        max_photos \in MaxPhotosArgs, min_confidence \in MinConfidenceArgs :
       /\ ~details => total = 0
       /\ screening = [active |-> TRUE, details |-> details, total |-> total,
                       max_photos |-> max_photos,
                       min_confidence |-> min_confidence]
  /\ run = [d \in BOOLEAN |-> IdleRun]
  /\ call = NoCall

NextScreen ==
  \/ GetDetails
  \/ ExaminePhoto
  \/ ReturnPhotos

SpecScreen == InitScreen /\ [][NextScreen]_vars

\* deduplicate_menu_items on every list of at most MaxItems items

InitDedup ==
  /\ now = 0
  /\ InitStore(FALSE)
  /\ screening = NoScreening
  /\ run = [d \in BOOLEAN |-> IdleRun]
  /\ \E items \in ListsUpTo(DedupItems, MaxItems) :
       call = [NoDedup EXCEPT !.items = items]

NextDedup ==
  \/ Deduplicate
  \/ DeduplicateAgain

SpecDedup == InitDedup /\ [][NextDedup]_vars

\* load_protocol_triggers on every list of at most MaxProtocols ids, over
\* every state of the definition files
InitCompose ==
  /\ now = 0
  /\ InitStore(FALSE)
  /\ screening = NoScreening
  /\ run = [d \in BOOLEAN |-> IdleRun]
  /\ \E protocols \in ListsUpTo(ProtocolIds, MaxProtocols),
        vegan \in FileStates("vegan"), keto \in FileStates("keto") :
       call = [NoCompose EXCEPT
                 !.protocols = protocols,
                 !.files = [id \in FileIds |->
                              IF id = "vegan" THEN vegan ELSE keto]]

NextCompose ==
  \/ LoadNext
  \/ ReturnTriggers

SpecCompose == InitCompose /\ [][NextCompose]_vars

\* one GET /nearby: the pages of the provider come as the search asks for
\* them
InitNearby ==
  /\ now = 0
  /\ InitStore(FALSE)
  /\ screening = NoScreening
  /\ run = [d \in BOOLEAN |-> IdleRun]
  /\ \E radius_meters \in RadiusArgs :
       call = [NoNearby EXCEPT !.radius_meters = radius_meters]

NextNearby ==
  \/ FetchPage
  \/ ListNearby

SpecNearby == InitNearby /\ [][NextNearby]_vars

\* the token table of one user, no token issued yet, two sessions
InitAuth ==
  /\ now = 0
  /\ InitStore(FALSE)
  /\ screening = NoScreening
  /\ run = [d \in BOOLEAN |-> IdleRun]
  /\ call = NoAuth

NextAuth ==
  \/ Login
  \/ \E s \in AuthSessions : RefreshQuery(s)
  \/ \E s \in AuthSessions : RefreshCommit(s)
  \/ \E s \in AuthSessions : LogoutQuery(s)
  \/ \E s \in AuthSessions : LogoutCommit(s)
  \/ AuthTick

SpecAuth == InitAuth /\ [][NextAuth]_vars

\* One contributor and the readers of the store; requests are short
\* against the clock, which stands still.
InitRead ==
  /\ now = 0
  /\ \E seeded \in BOOLEAN : InitStore(seeded)
  /\ screening = NoScreening
  /\ run = [d \in BOOLEAN |-> IdleRun]
  /\ call = NoRead

NextRead ==
  \/ ReadRestaurant
  \/ ReadItems
  \/ DetailsLookup
  \/ DetailsCount
  \/ SearchRestaurants
  \/ NearbyStatus
  \/ \E w \in Solo : Start(w)
  \/ \E w \in Solo : VisionCall(w)
  \/ \E w \in Solo : QueryExisting(w)
  \/ \E w \in Solo : DeactivateOld(w)
  \/ \E w \in Solo : Commit1(w)
  \/ \E w \in Solo : Commit2(w)

SpecRead == InitRead /\ [][NextRead]_vars

\* two users, no scan and no bookmark yet
InitOwned ==
  /\ now = 0
  /\ InitStore(FALSE)
  /\ screening = NoScreening
  /\ run = [d \in BOOLEAN |-> IdleRun]
  /\ call = NoOwned

NextOwned ==
  \/ \E table \in Tables : SaveRow(table)
  \/ get_scan
  \/ \E table \in Tables : DeleteOwned(table)

SpecOwned == InitOwned /\ [][NextOwned]_vars

\* requests naming a protocol id, at any of the entry points
InitIds ==
  /\ now = 0
  /\ InitStore(FALSE)
  /\ screening = NoScreening
  /\ run = [d \in BOOLEAN |-> IdleRun]
  /\ call = NoSubmit

NextIds == \E entry \in EntryPoints : Submit(entry)

SpecIds == InitIds /\ [][NextIds]_vars

\* one payload and one way of wrapping it, given to both parsers
InitFence ==
  /\ now = 0
  /\ InitStore(FALSE)
  /\ screening = NoScreening
  /\ run = [d \in BOOLEAN |-> IdleRun]
  /\ \E payload \in FencedPayloads, before \in Blanks,
        fence \in LeadingFences, after \in Blanks :
       call = [NoFence EXCEPT !.payload = payload, !.before = before,
                              !.fence = fence, !.after = after]

NextFence ==
  \/ AnalyzeBare
  \/ AnalyzeWrapped
  \/ ClassifyBare
  \/ ClassifyWrapped

SpecFence == InitFence /\ [][NextFence]_vars

\* ------------------------------------------------------------- properties
Quiescent == \A w \in Writers : ~InFlight(w)

RowsOfPass(p) == { i \in 1..Len(menu_item_rows) : menu_item_rows[i].pass = p }

\* C1: the active items a read returns never mix the items of two
\* different analysis passes.
C1_ReadShowsOnePass ==
  response.status = 200 =>
    Cardinality({ menu_item_rows[i].pass : i \in response.rows }) <= 1

\* C2: a read that observes the timestamp and counter written by a pass
\* observes every item of that pass with them (the write is visible as one
\* unit, also between its steps and when it fails part-way).
C2_WriteVisibleAtomically ==
  response.status = 200 =>
    \A k \in 1..Len(hist[response.pass].items) :
      \E i \in response.rows : /\ menu_item_rows[i].pass = response.pass
                               /\ menu_item_rows[i].idx = k

\* C3: once two concurrent analyze requests have both completed, the active
\* items are exactly those of the request that committed last and
\* menu_last_scanned is that request's timestamp.
C3_LastCommittedWriterWins ==
  ( /\ Quiescent
    /\ \E p, q \in Passes : /\ p # q
                            /\ hist[p].overlap /\ hist[q].overlap
                            /\ hist[p].c2 /\ hist[q].c2 )
  => /\ ActiveIds(menu_item_rows) = RowsOfPass(last_done)
     /\ restaurant.menu_last_scanned = hist[last_done].ts

\* C4: total_scans equals the number of committed analyze writes.
C4_TotalScansCountsWrites ==
  IntOr(restaurant.total_scans, 0) = Cardinality(Committed)

\* C5 (as stated): a request that finds the record fresh makes no vision
\* call.
C5_FreshWriteSkipsVision ==
  \A p \in Passes : hist[p].fresh => hist[p].vision = 0

\* C5 (amended): freshness never short-circuits a write; every analyze
\* request that completes has called the vision capability exactly once and
\* has committed its own analysis (record and items), whether the record
\* was fresh or not.
C5_FreshWriteStillAnalyzes ==
  \A w \in Writers :
    pc[w] = "done" =>
      /\ hist[pass[w]].vision = 1
      /\ hist[pass[w]].c1 /\ hist[pass[w]].c2
      /\ restaurant.present

C5_Witness ==
  \E w \in Writers : /\ pc[w] = "done"
                     /\ hist[pass[w]].fresh
                     /\ hist[pass[w]].vision = 1
                     /\ hist[pass[w]].items # <<>>

\* C6: after a committed write on a restaurant that has a record, with no
\* other writer running, every item active before is inactive, the active
\* items are exactly the items of the new analysis, and a read made right
\* afterwards reports the record fresh.
C6_WriteSupersedes ==
  \A w \in Writers :
    pc[w] = "done" =>
      LET p == pass[w]
          first == Len(menu_item_rows) - Len(hist[p].items)
      IN /\ \A i \in 1..Len(menu_item_rows) :
              menu_item_rows[i].pass # p => ~menu_item_rows[i].is_active
         /\ first >= 0
         /\ ActiveIds(menu_item_rows) = (first + 1)..Len(menu_item_rows)
         /\ \A k \in 1..Len(hist[p].items) :
              /\ menu_item_rows[first + k].name = hist[p].items[k].name
              /\ menu_item_rows[first + k].description = hist[p].items[k].notes
              /\ menu_item_rows[first + k].pass = p
         /\ Freshness(DaysBetween(now, restaurant.menu_last_scanned)) = "fresh"
         /\ (response.status = 200 /\ response.pass = p)
              => response.freshness = "fresh"

C6_Witness ==
  \E w \in Writers :
    /\ pc[w] = "done"
    /\ now >= RecentDays * TicksPerDay
    /\ response.status = 200 /\ response.pass = pass[w]
    /\ response.item_count = 2
    /\ \E i \in 1..Len(menu_item_rows) : ~menu_item_rows[i].is_active

\* C7: no Restaurant record and no menu item row is ever removed, an
\* inactive row is never made active again, and a row keeps its content.
C7_NeverHardDeletes ==
  [][ /\ restaurant.present => restaurant'.present
      /\ Len(menu_item_rows') >= Len(menu_item_rows)
      /\ \A i \in 1..Len(menu_item_rows) :
           /\ menu_item_rows'[i].name = menu_item_rows[i].name
           /\ menu_item_rows'[i].description = menu_item_rows[i].description
           /\ menu_item_rows'[i].pass = menu_item_rows[i].pass
           /\ ~menu_item_rows[i].is_active => ~menu_item_rows'[i].is_active
    ]_vars

C7_Witness ==
  /\ \E i \in 1..Len(menu_item_rows) : ~menu_item_rows[i].is_active
  /\ \E i \in 1..Len(menu_item_rows) : menu_item_rows[i].is_active
  /\ Quiescent

Preserves(out, src, key) == key \in DOMAIN out /\ out[key] = src[key]

C9_ReadRoundTripsWrite ==
  response.status = 200 =>
    \A i \in response.rows :
      LET src == hist[menu_item_rows[i].pass].items[menu_item_rows[i].idx]
          out == response.menu_items[i]
      IN /\ Preserves(out, src, "name")
         /\ Preserves(out, src, "safety")
         /\ Preserves(out, src, "triggers")
         /\ (Preserves(out, src, "notes") \/ out.description = src.notes)

\* C10: with d the whole days elapsed since menu_last_scanned, a read labels
\* the record fresh for 0 <= d <= 6, recent for 7 <= d <= 29, stale for
\* d >= 30.
C10_FreshnessBoundaries ==
  response.status = 200 =>
    \E d \in 0..(MaxAgeDays + 1) :
      /\ d * TicksPerDay <= now - response.last_analyzed
      /\ now - response.last_analyzed < (d + 1) * TicksPerDay
      /\ response.freshness = "fresh" <=> (0 <= d /\ d <= 6)
      /\ response.freshness = "recent" <=> (7 <= d /\ d <= 29)
      /\ response.freshness = "stale" <=> d >= 30

C10_Witness ==
  /\ response.status = 200
  /\ response.freshness = "stale"
  /\ now - response.last_analyzed = 30 * TicksPerDay

\* the request of pass p ended at its first commit: the INSERT of the
\* Restaurant row hit the unique google_place_id
ConflictError(w) ==
  /\ pc[w] = "failed"
  /\ hist[pass[w]].ts # Null
  /\ ~hist[pass[w]].c1

\* C11: a concurrent write conflict never surfaces as an error: of two
\* first-time analyze requests racing on one restaurant none ends with an
\* error at its commit.
C11_NoConflictError == \A w \in Writers : ~ConflictError(w)

\* C12: once the places provider has resolved the restaurant, an analyze
\* request never fails, whatever the vision capability does.
C12_AnalyzeNeverFails == \A w \in Writers : pc[w] # "failed"

\* the vision call of pass p raised: the pass made its call and never got
\* to the query that follows it
VisionRaised(p) ==
  /\ hist[p].vision = 1
  /\ hist[p].ts = Null
  /\ \A w \in Writers : pass[w] = p => pc[w] = "failed"

\* the answer holds the expected document: one JSON object, fenced or not
IsJsonObject(text) ==
  LET docs == SelectSeq(text, LAMBDA l : l.type = "json")
  IN /\ Len(docs) = 1
     /\ \A i \in 1..Len(text) : text[i].type # "prose"
     /\ docs[1].json.kind = "object"

\* C14: analyze_menu_image does not raise on an answer that is not the
\* expected JSON: it returns the one 'Error parsing menu' item with safety
\* caution; the well-formed empty payload with an error yields the empty
\* list.
C14_UnparsableYieldsErrorItem ==
  \A p \in Passes :
    (hist[p].vision = 1 /\ hist[p].answer # NoAnswer
       /\ ~hist[p].answer.raised)
    => /\ ~IsJsonObject(hist[p].answer.text)
            => /\ ~VisionRaised(p)
               /\ hist[p].items = <<ErrorItem>>
               /\ ErrorItem.safety = "caution"
       /\ hist[p].answer.text = <<JsonLine(EmptyWithErrorJson)>>
            => ~VisionRaised(p) /\ hist[p].items = <<>>

\* C20: the active menu items of the restaurant have pairwise distinct keys
\* (name lower-cased and trimmed).
C20_ActiveKeysDistinct ==
  \A i, j \in ActiveIds(menu_item_rows) :
    i # j => Key(menu_item_rows[i].name) # Key(menu_item_rows[j].name)

\* ---------------------------------------------- properties of the screening
Modes == BOOLEAN            \* the values of return_debug_info

Ended(r) == r.pc \in {"returned", "raised"}

\* the catalog entries in a list of (photo, detection) pairs
PhotosOf(list) == { list[k].photo : k \in 1..Len(list) }

\* C13: is_menu_photo never raises and answers every failure of the vision
\* capability with is_menu false, confidence 0.0 and a reason; a photo whose
\* classification failed is never accepted and the screening loop never
\* fails.
C13_FailuresAbsorbed ==
  \A d \in Modes :
    /\ run[d].pc # "raised"
    /\ \A k \in 1..Len(run[d].classified) :
         LET c == run[d].classified[k]
         IN c.failure
              => /\ ~c.detection.is_menu
                 /\ c.detection.confidence = 0
                 /\ c.detection.reason # NoKey
                 /\ c.photo \notin PhotosOf(run[d].menu_photos)

\* C15: a photo is accepted exactly when its verdict has is_menu true and
\* a confidence of at least min_confidence; a confidence equal to the
\* threshold accepts.
C15_AcceptedIffConfident ==
  \A d \in Modes :
    /\ PhotosOf(run[d].menu_photos) \subseteq run[d].decided
    /\ \A k \in 1..Len(run[d].classified) :
         LET c == run[d].classified[k]
         IN c.photo \in run[d].decided
              => (c.photo \in PhotosOf(run[d].menu_photos)
                    <=> (c.detection.is_menu
                         /\ c.detection.confidence
                              >= screening.min_confidence))

\* a call with the threshold 0.9 has returned after accepting a photo at
\* exactly the threshold and rejecting a menu verdict of 0.7
C15_Witness ==
  \E d \in Modes :
    /\ run[d].pc = "returned"
    /\ screening.min_confidence = 90
    /\ \E k \in 1..Len(run[d].menu_photos) :
         run[d].menu_photos[k].detection.confidence = 90
    /\ \E k \in 1..Len(run[d].classified) :
         LET c == run[d].classified[k]
         IN /\ c.detection.is_menu
            /\ c.detection.confidence = DefaultMinConfidence
            /\ c.photo \in run[d].decided
            /\ c.photo \notin PhotosOf(run[d].menu_photos)

\* C16: once three photos are accepted no further photo is downloaded or
\* classified, and neither the list built nor the list returned has more
\* than three entries.
C16_StopsAtThree ==
  [][\A d \in Modes :
       /\ Len(run'[d].menu_photos) <= 3
       /\ Len(run'[d].result.menu_photos) <= 3
       /\ Len(run[d].menu_photos) >= 3
            => /\ run'[d].downloads = run[d].downloads
               /\ run'[d].classified = run[d].classified]_vars

\* a call has returned three photos although the slice had another entry
C16_Witness ==
  \E d \in Modes :
    /\ run[d].pc = "returned"
    /\ Len(run[d].result.menu_photos) = 3
    /\ Len(run[d].downloads) < Min(run[d].catalog, screening.max_photos)

\* C17: the photos examined are a prefix of the catalog of length at most
\* min(catalog size, max_photos), and the accepted photos are in catalog
\* order.
C17_PrefixInCatalogOrder ==
  \A d \in Modes :
    /\ run[d].catalog <= PlacesPhotoCap
    /\ Len(run[d].downloads) <= Min(run[d].catalog, screening.max_photos)
    /\ \A k \in 1..Len(run[d].downloads) : run[d].downloads[k] = k
    /\ \A j, k \in 1..Len(run[d].menu_photos) :
         j < k => run[d].menu_photos[j].photo < run[d].menu_photos[k].photo
    /\ run[d].pc = "returned" => run[d].result.menu_photos = run[d].menu_photos

\* a call has returned after examining max_photos entries of a longer
\* catalog and accepting two of them
C17_Witness ==
  \E d \in Modes :
    /\ run[d].pc = "returned"
    /\ screening.max_photos < run[d].catalog
    /\ Len(run[d].downloads) = screening.max_photos
    /\ Len(run[d].result.menu_photos) = 2

\* C18: with the same catalog, download outcomes and answers the call
\* examines the same photos, accepts the same photos and ends the same way
\* whether return_debug_info is true or false.
C18_DebugDoesNotAlter ==
  (Ended(run[TRUE]) /\ Ended(run[FALSE]))
    => /\ run[TRUE].pc = run[FALSE].pc
       /\ run[TRUE].downloads = run[FALSE].downloads
       /\ run[TRUE].menu_photos = run[FALSE].menu_photos
       /\ run[TRUE].result.menu_photos = run[FALSE].result.menu_photos

\* every photo of the call was downloaded and classified and the vision
\* capability answered is_menu false for each
AllVerdictsFalse(r) ==
  /\ Len(r.classified) >= 1
  /\ Len(r.classified) = Len(r.downloads)
  /\ \A k \in 1..Len(r.classified) :
       ~r.classified[k].failure /\ ~r.classified[k].detection.is_menu

\* C19: when the vision capability answers is_menu false for every
\* screened photo, what the call returns differs from what it returns when
\* the places provider has no photos.
C19_NoMenuPhotosDistinct ==
  \A d \in Modes :
    (run[d].pc = "returned" /\ AllVerdictsFalse(run[d]))
      => run[d].result # NoPhotosResult(d)

\* ------------------------------------------- properties of the request checks
\* the protocols of the request include an id outside the valid set
NamesInvalidProtocol(req) ==
  \E i \in 1..Len(req.protocols) : req.protocols[i] \notin valid_protocols

\* C28: a request naming a protocol outside the valid set is rejected before
\* any places lookup, trigger composition or vision call, a request whose
\* restaurant the places provider cannot resolve is rejected as not found
\* before any vision call, and neither creates or changes a row.
C28_RejectedBeforeWork ==
  \A w \in Solo :
    call.fn = "analyze_restaurant_menu"
    => /\ NamesInvalidProtocol(call.request)
            => /\ pc[w] = "rejected"
               /\ call.status = 400
               /\ call.calls = <<>>
       /\ (~NamesInvalidProtocol(call.request) /\ ~call.request.resolves)
            => /\ pc[w] = "rejected"
               /\ call.status = 404
               /\ \A i \in 1..Len(call.calls) :
                    call.calls[i] = "get_place_details"
       /\ pc[w] = "rejected"
            => /\ hist[pass[w]].vision = 0
               /\ restaurant = call.restaurant
               /\ menu_item_rows = call.menu_item_rows

\* a request with an invalid protocol was rejected on a restaurant that has
\* a record and items
C28_Witness ==
  /\ call.fn = "analyze_restaurant_menu"
  /\ NamesInvalidProtocol(call.request)
  /\ call.request.resolves
  /\ pc[1] = "rejected"
  /\ restaurant.present
  /\ Len(menu_item_rows) > 0

\* ---------------------------------------------- properties of the merge
KeysOf(items) == { Key(items[i].name) : i \in 1..Len(items) }

\* the orderings of a list
Orderings(items) ==
  { [i \in 1..Len(items) |-> items[f[i]]] :
      f \in { g \in [1..Len(items) -> 1..Len(items)] :
                \A i, j \in 1..Len(items) : i # j => g[i] # g[j] } }

\* C21: deduplicate_menu_items returns one item per distinct key (name
\* lower-cased and trimmed): no two output items share a key, every key of
\* the input is in the output, and every ordering of the input leaves the
\* same set of keys.
C21_OneItemPerKey ==
  (call.fn = "deduplicate_menu_items" /\ call.step >= 1)
  => /\ \A i, j \in 1..Len(call.out) :
          i # j => Key(call.out[i].name) # Key(call.out[j].name)
     /\ KeysOf(call.out) = KeysOf(call.items)
     /\ \A other \in Orderings(call.items) :
          KeysOf(deduplicate_menu_items(other)) = KeysOf(call.out)

\* a list holding two keys, one of them twice, was merged
C21_Witness ==
  /\ call.fn = "deduplicate_menu_items"
  /\ call.step >= 1
  /\ Len(call.items) = 3
  /\ Len(call.out) = 2

\* the first item of the input with key k among those with the longest
\* notes, a missing notes field counting as empty
FirstLongest(items, k) ==
  LET same == { i \in 1..Len(items) : Key(items[i].name) = k }
      len(i) == IF items[i].notes = NoNotes THEN 0 ELSE Len(items[i].notes)
      best == { i \in same : \A j \in same : len(j) <= len(i) }
  IN CHOOSE i \in best : \A j \in best : i <= j

\* the place where key k is first met in the input
FirstMet(items, k) ==
  CHOOSE i \in 1..Len(items) :
    /\ Key(items[i].name) = k
    /\ \A j \in 1..(i - 1) : Key(items[j].name) # k

\* C22: for each key the item kept is the one with the longest notes among
\* the input items sharing the key, the first of them when several tie, and
\* the output lists the kept items in the order their keys were first met.
C22_KeepsFirstLongest ==
  (call.fn = "deduplicate_menu_items" /\ call.step >= 1)
  => /\ \A n \in 1..Len(call.out) :
          call.out[n] =
            call.items[FirstLongest(call.items, Key(call.out[n].name))]
     /\ \A m, n \in 1..Len(call.out) :
          m < n => FirstMet(call.items, Key(call.out[m].name))
                     < FirstMet(call.items, Key(call.out[n].name))

\* a merged list in which two different items of one key tie for the
\* longest notes and a third of that key has no notes field
C22_Witness ==
  /\ call.fn = "deduplicate_menu_items"
  /\ call.step >= 1
  /\ \E i, j, l \in 1..Len(call.items) :
       /\ i < j
       /\ Key(call.items[i].name) = Key(call.items[j].name)
       /\ Key(call.items[l].name) = Key(call.items[i].name)
       /\ call.items[i] # call.items[j]
       /\ call.items[i].notes # NoNotes
       /\ call.items[j].notes # NoNotes
       /\ Len(call.items[i].notes) = Len(call.items[j].notes)
       /\ Len(call.items[i].notes) > 0
       /\ call.items[l].notes = NoNotes

\* C23: the merge is idempotent: merging the merged list returns it item for
\* item and in the same order.
C23_MergeIdempotent ==
  (call.fn = "deduplicate_menu_items" /\ call.step = 2)
  => call.again = call.out

\* the merge was applied again to a merged list of two items that came from
\* three
C23_Witness ==
  /\ call.fn = "deduplicate_menu_items"
  /\ call.step = 2
  /\ Len(call.items) = 3
  /\ Len(call.again) = 2

\* the two photos of the scenario: 'Garden Salad' without notes and
\* 'Chicken Caesar', then 'garden salad ' with notes
FirstPhotoItems ==
  << [name |-> NameGardenSalad, notes |-> NoNotes],
     [name |-> NameChickenCaesar, notes |-> <<"o", "k">>] >>

SecondPhotoItems ==
  << [name |-> NameGardenSaladVariant, notes |-> NotesWithNuts] >>

Scenario ==
  /\ call.fn = "deduplicate_menu_items"
  /\ call.step >= 1
  /\ call.items = FirstPhotoItems \o SecondPhotoItems

\* C24 as stated: the merged set of the two photos has exactly 2 items and
\* the item named "Garden Salad" carries the longer notes.
C24_GardenSaladCarriesNotes ==
  Scenario
  => /\ Len(call.out) = 2
     /\ \E n \in 1..Len(call.out) :
          /\ call.out[n].name = NameGardenSalad
          /\ call.out[n].notes = NotesWithNuts

\* C24: the merged set of the two photos has exactly 2 items; the one with
\* the key of 'Garden Salad' is the item of the second photo, name
\* 'garden salad ' and longer notes, in the place of the first photo's item.
C24_SecondPhotoItemSurvives ==
  Scenario
  => /\ Len(call.out) = 2
     /\ call.out[1] = SecondPhotoItems[1]
     /\ call.out[2] = FirstPhotoItems[2]
     /\ \A n \in 1..Len(call.out) : call.out[n].name # NameGardenSalad

\* the two photos of the scenario were merged
C24_Witness == Scenario /\ Len(call.out) = 2

\* ------------------------------------- properties of the trigger composition
\* the call has ended: it returned, or an exception left the loop
Composed ==
  /\ call.fn = "load_protocol_triggers"
  /\ call.returned \/ call.combined_triggers.raised

\* two results carry set-equal trigger data
SetEqual(a, b) ==
  /\ a.all_triggers = b.all_triggers
  /\ a.common_restaurant_triggers = b.common_restaurant_triggers
  /\ a.safe_alternatives = b.safe_alternatives
  /\ a.detailed_triggers = b.detailed_triggers
  /\ Elements(a.protocols) = Elements(b.protocols)

\* C25: two lists holding the same set of protocol ids, in any order, give
\* set-equal trigger data: the same three unions as sets, the same detail
\* map and the same set of protocol descriptions.
C25_OrderIndependent ==
  Composed
  => \A other \in ListsUpTo(ProtocolIds, MaxProtocols) :
       Elements(other) = Elements(call.protocols)
       => LET r == load_protocol_triggers(other, call.files)
          IN /\ r.raised = call.combined_triggers.raised
             /\ ~r.raised => SetEqual(r, call.combined_triggers)

\* the call returned the composition of vegan and keto, asked in this order
C25_Witness ==
  /\ Composed
  /\ call.returned
  /\ call.protocols = <<"vegan", "keto">>
  /\ Len(call.combined_triggers.protocols) = 2
  /\ DOMAIN call.combined_triggers.detailed_triggers = {"vegan", "keto"}

NoTwoAlike(set) == \A x, y \in set : x # y => Key(x) # Key(y)

\* C26: no union list returned holds two strings that are equal after
\* lower-casing and trimming.
C26_UnionsCaseInsensitive ==
  (Composed /\ call.returned)
  => /\ NoTwoAlike(call.combined_triggers.all_triggers)
     /\ NoTwoAlike(call.combined_triggers.common_restaurant_triggers)
     /\ NoTwoAlike(call.combined_triggers.safe_alternatives)

\* the ids of a list that have a usable definition
Usable(protocols, files) ==
  SelectSeq(protocols,
            LAMBDA p : p \in protocol_files /\ files[p].state = "ok")

\* C27: an id without a usable definition (unknown, file missing, file not
\* valid JSON) never makes the call fail: it is skipped and the result is
\* the composition of the remaining ids.
C27_SkipsUnusable ==
  Composed
  => /\ ~call.combined_triggers.raised
     /\ call.combined_triggers =
          load_protocol_triggers(Usable(call.protocols, call.files),
                                 call.files)

\* ------------------------------------------- properties of the nearby listing
\* C29: the nearby listing holds exactly the candidates the provider
\* delivered whose distance from the origin is at most radius_meters, by
\* non-decreasing distance, candidates of equal distance in provider order,
\* whether every page came or a page fetch failed part-way.
C29_ListsWithinRadiusSorted ==
  (call.fn = "get_nearby_restaurants" /\ call.phase = "returned")
  => /\ { call.results[k].place : k \in 1..Len(call.results) }
          = { call.restaurants[k].place : k \in
                { j \in 1..Len(call.restaurants) :
                    call.restaurants[j].dist <= call.radius_meters * 10 } }
     /\ \A j, k \in 1..Len(call.results) :
          j < k
          => \/ call.results[j].distance_meters
                  < call.results[k].distance_meters
             \/ /\ call.results[j].distance_meters
                     = call.results[k].distance_meters
                /\ call.results[j].place < call.results[k].place

\* ------------------------------------------- properties of the token table
\* C31: a refresh token is exchanged at most once: of the refresh requests
\* presenting one token at most one is answered with new tokens, whatever
\* the interleaving; no refresh begun after a successful refresh or a logout
\* with the token succeeds; and a token once revoked stays revoked.
C31_ExchangedAtMostOnce ==
  call.fn = "auth"
  => /\ \A j, k \in 1..Len(call.exchanged) :
          j # k => call.exchanged[j] # call.exchanged[k]
     /\ \A s \in AuthSessions :
          call.sess[s].pc = "refresh" => ~call.sess[s].after_spent
     /\ \A token \in call.spent :
          call.refresh_tokens[token].is_revoked

\* ------------------------------------------- properties of the read handlers
\* a step of get_restaurant_menu, get_restaurant_details, search_restaurants
\* or get_nearby_restaurants
ReadStep == rpc' # rpc \/ response' # response \/ call' # call

\* C32: a step of one of the four read handlers leaves the Restaurant row
\* and every RestaurantMenuItem row as they were (active flags,
\* menu_last_scanned, total_scans), takes no row lock and adds no call of
\* the vision capability.
C32_ReadsLeaveRowsUnchanged ==
  [][ReadStep => /\ restaurant' = restaurant
                 /\ menu_item_rows' = menu_item_rows
                 /\ locked' = locked
                 /\ \A p \in Passes : hist'[p].vision = hist[p].vision]_vars

\* each of the four handlers has answered from a store holding a record
\* with active and superseded rows
C32_Witness ==
  /\ restaurant.present
  /\ \E i \in 1..Len(menu_item_rows) : ~menu_item_rows[i].is_active
  /\ \E i \in 1..Len(menu_item_rows) : menu_item_rows[i].is_active
  /\ response.status = 200
  /\ call.fn \in {"get_restaurant_details", "search_restaurants",
                  "get_nearby_restaurants"}
  /\ call.phase = "returned"
  /\ call.has_menu_data

\* C35: for a restaurant with a record, the menu_item_count answered by
\* get_restaurant_details is the number of active rows at the moment of its
\* count, which is the item_count and the number of items get_restaurant_menu
\* answers from the same rows.
C35_CountsAgree ==
  (/\ call.fn = "get_restaurant_details"
   /\ call.phase = "returned"
   /\ call.has_menu_data)
  => call.menu_item_count = call.active_then

\* ------------------------------------------- properties of the record's life
\* the outcome of the pass is the 'Error parsing menu' item
Sentinel(p) == hist[p].items = <<ErrorItem>>

\* C33: the record exists only once an analysis that succeeded has
\* committed, and an analysis whose outcome is the 'Error parsing menu'
\* item commits nothing: it neither creates or updates the record nor
\* supersedes the active items of an earlier analysis.
C33_SentinelLeavesNoRecord ==
  /\ restaurant.present
       => \E p \in Committed : ~Sentinel(p)
  /\ \A p \in Passes : Sentinel(p) => ~hist[p].c1 /\ ~hist[p].c2

\* ------------------------------------------- properties of the owned rows
\* C34: get_scan, delete_scan and delete_bookmark answer 200 only for a row
\* of the authenticated user and return or delete that row alone; a request
\* naming the row of another user is answered 404 and the row stays as it
\* was.
C34_OnlyOwnRows ==
  (call.fn = "owned" /\ call.last.op \in {"get_scan", "delete"})
  => /\ call.last.status = 200
          => /\ call.last.user \in Users
             /\ call.last.owner = call.last.user
             /\ call.last.returned.user_id = call.last.user
     /\ (call.last.user \in Users
           /\ call.last.owner \in Users \ {call.last.user})
          => call.last.status = 404 /\ call.last.kept

\* a user has asked to delete the row of the other user
C34_Witness ==
  /\ call.fn = "owned"
  /\ call.last.op = "delete"
  /\ call.last.user \in Users
  /\ call.last.owner \in Users \ {call.last.user}

\* ------------------------------------------- properties of the protocol ids
\* C36: every entry point accepts exactly the ids GET /protocols lists: an
\* advertised id has a definition in _load_protocol_file and passes the
\* validation of analyze_menu, analyze_restaurant_menu and
\* update_preferences, and an id that is not advertised passes none.
C36_SameIdsEverywhere ==
  (call.fn = "protocols" /\ call.entry \in EntryPoints)
  => (call.accepted <=> call.protocol \in advertised_protocols)

\* ------------------------------------------- properties of the external calls
\* the catalog entries whose download failed, as the debug entries tell
FailedDownloads ==
  { run[TRUE].photo_check_results[k].photo :
      k \in { j \in 1..Len(run[TRUE].photo_check_results) :
                ~run[TRUE].photo_check_results[j].download_success } }

\* C37: in one screening call the download of a catalog photo is requested
\* at most once and a photo is classified at most once; a photo whose
\* download failed is not classified, and it is counted among the photos
\* checked, which never exceed the cap max_photos.
C37_NoRetry ==
  \A d \in Modes :
    /\ \A j, k \in 1..Len(run[d].downloads) :
         j # k => run[d].downloads[j] # run[d].downloads[k]
    /\ \A j, k \in 1..Len(run[d].classified) :
         j # k => run[d].classified[j].photo # run[d].classified[k].photo
    /\ PhotosOf(run[d].classified)
         \subseteq { run[d].downloads[k] : k \in 1..Len(run[d].downloads) }
    /\ PhotosOf(run[d].classified) \cap FailedDownloads = {}
    /\ run[d].photos_checked = Len(run[d].downloads)
    /\ run[d].photos_checked <= screening.max_photos

\* a call has returned at the cap, short of the catalog, after a download
\* failed and another photo was classified
C37_Witness ==
  \E d \in Modes :
    /\ run[d].pc = "returned"
    /\ FailedDownloads # {}
    /\ Len(run[d].classified) >= 1
    /\ Len(run[d].downloads) > Len(run[d].classified)
    /\ run[d].photos_checked = screening.max_photos
    /\ screening.max_photos < run[d].catalog

\* ------------------------------------------- properties of the fence handling
\* C38: for a valid JSON payload between a leading and a trailing code-fence
\* line, with or without white space around it, analyze_menu_image returns
\* what it returns for the bare payload, and so does is_menu_photo.
C38_FencedSameAsBare ==
  call.fn = "fence"
  => /\ (call.menu_bare.run /\ call.menu_wrapped.run)
          => call.menu_wrapped.result = call.menu_bare.result
     /\ (call.verdict_bare.run /\ call.verdict_wrapped.run)
          => call.verdict_wrapped.result = call.verdict_bare.result

====
